---- MODULE Spec2Model ----
(***************************************************************************)
(* Voxel editor: command history (UndoManager), the commands it runs, and  *)
(* the voxel registry / extrusion engine.                                  *)
(*                                                                         *)
(* Specifications (they share the variables):                              *)
(*   SpecHistory    UndoManager driving CreateBlockCommands over the       *)
(*                  GridBlockSystem block map, one call after the other.   *)
(*   SpecReentrant  the same, and the code that runs inside undo()/redo()  *)
(*                  (the command's method, the event handlers) may call    *)
(*                  execute(), undo() and redo().                          *)
(*   SpecExtrude    VoxelExtruder.extrude / intrude over the registry.     *)
(*   SpecVoxel      extrude / intrude and the Delete, Move, Rotate and     *)
(*                  Extrude commands run through UndoManager.              *)
(* undo() and redo() are split at the points where foreign code runs.      *)
(* World coordinates are counted in halves (3.0 is 6), so that             *)
(* Math.round ties are representable.                                      *)
(***************************************************************************)
EXTENDS Integers, Sequences, FiniteSets, TLC

\* ---------------------------------------------------------------- bounds
\* Number of distinct CreateBlockCommand objects (each with its own block).
NumCmds == 3
\* Largest argument passed to setMaxHistorySize.
MaxSize == 2
\* Deepest nesting of undo()/redo() calls on the call stack.
MaxDepth == 2
\* Grid cells are <<x, 0, 0>> with x in 0..MaxX.
MaxX == 5
\* Largest |distance| passed to extrude / intrude in SpecExtrude.
MaxDistance == 5
\* Most commands on the undo stack in SpecVoxel.
MaxStack == 1
\* Small maxVoxelCount the collision system may be configured with.
SmallVoxelCount == 4
\* Largest |distance| passed to extrudeMultiple in SpecExtrude.
MaxMultiple == 3
\* Largest |x| of a block cell explored by the preview runs.
MaxBlockCell == 1
\* Largest |coordinate|, in halves, handed to snapToGrid and worldToGrid.
MaxCoord == 10
\* Largest |coordinate| of a grid cell handed to getLinePositions.
MaxLine == 2
\* Largest |component| of a face normal handed to snapToCardinalDirection.
MaxNormal == 2
\* Number of hand-tracking results delivered in a run.
MaxDelivery == 2
\* Largest |x| of a block cell explored by the volume runs.
MaxVolumeCell == 3
\* Latest time, in ms, of a detect() call.
MaxTime == 400
\* Most callbacks ever subscribed to the event.
MaxListeners == 3
\* Most calls of one callback.
MaxCalls == 2
\* Largest turn, in quarter turns, of a two-hand rotation.
MaxTurn == 1
\* Largest distance, in halves, of a one-hand drag.
MaxDrag == 2
\* Largest |distance| of an extrusion preview.
MaxPreview == 2
\* SpecVoxel: grid cells are <<x, 0, 0>> with x in 0..MaxCell.
MaxCell == 2
\* SpecVoxel: most voxel objects alive at once.
MaxLive == 2

\* UndoManager.constructor: this.maxHistorySize = 50
DefaultMaxHistorySize == 50
\* Configuration default of the collision system: maxVoxelCount = 1000
DefaultMaxVoxelCount == 1000
\* GridBlockSystem.constructor: this.maxBlocks = 1000
DefaultMaxBlocks == 1000
\* Small value the maxBlocks field of a block system may be set to.
SmallBlockCount == 2

VARIABLES
    undoStack,        \* UndoManager.undoStack (oldest first)
    redoStack,        \* UndoManager.redoStack
    maxHistorySize,   \* UndoManager.maxHistorySize
    isUndoing,        \* UndoManager.isUndoing
    isRedoing,        \* UndoManager.isRedoing
    frames,           \* undo()/redo() calls that have not returned yet, outermost first
    blocks,           \* GridBlockSystem.blocks: grid key -> block
    scene,            \* objects that are children of the scene
    registry,         \* collision system: grid key -> voxel
    vox,              \* voxel objects: position, rotation, userData.gridPosition
    maxVoxelCount,    \* collision system configuration
    preview,          \* preview state of VoxelExtruder, GhostPreview, GridBlockSystem
    pc,               \* the statement a voxel operation has reached
    manip,            \* ManipulationSystem: manipulation state
    app,              \* HandCraft3DApp: hand results, mode, position in the tick
    bus,              \* EventBus: the callbacks of one event, emits in progress
    det,              \* GrabDetector with its ClosedFistDetector, and the clock
    last,             \* observation: what the most recent step was
    result,           \* observation: what the last extrude / intrude returned
    before,           \* observation: the world when the last extrude / intrude began
    pre,              \* observation: both stacks when the last top-level call began
    rt,               \* observation: execute / k undo / k redo round trip
    run,              \* observation: executes made since the history was empty
    since             \* observation: commands undone since the last recorded execute

histVars == <<undoStack, redoStack, maxHistorySize, isUndoing, isRedoing, frames, last>>

worldVars == <<blocks, scene, registry, vox>>

obsVars == <<result, before, pre, rt, run, since>>

vars == <<histVars, worldVars, maxVoxelCount, preview, pc, manip, app, bus, det, obsVars>>

\* ------------------------------------------------------------- sequences
SeqToSet(s) == {s[i] : i \in 1..Len(s)}

Last(s) == s[Len(s)]

Front(s) == SubSeq(s, 1, Len(s) - 1)

\* The last n elements of s (all of s when it is shorter).
LastN(s, n) == IF Len(s) <= n THEN s ELSE SubSeq(s, Len(s) - n + 1, Len(s))

Max(a, b) == IF a >= b THEN a ELSE b

Abs(a) == IF a >= 0 THEN a ELSE -a

\* A Map as a function whose domain is the set of keys present.
MapSet(m, k, v) == [x \in (DOMAIN m) \cup {k} |-> IF x = k THEN v ELSE m[x]]

MapDelete(m, k) == [x \in (DOMAIN m) \ {k} |-> m[x]]

EmptyMap == [x \in {} |-> 0]

Range(m) == {m[x] : x \in DOMAIN m}

Restrict(m, S) == [x \in (DOMAIN m) \cap S |-> m[x]]

Add3(a, b) == <<a[1] + b[1], a[2] + b[2], a[3] + b[3]>>

Scale3(k, a) == <<k * a[1], k * a[2], k * a[3]>>

\* --------------------------------------------------------- VoxelGridSystem
\* constructor(voxelSize = 3.0), in halves.
voxelSize == 3 + 3

\* Math.round(c / voxelSize): nearest integer, a tie goes up (floor(q + 1/2)).
RoundDiv(c, size) == (2 * c + size) \div (2 * size)

\* VoxelGridSystem.worldToGrid
worldToGrid(p) == <<RoundDiv(p[1], voxelSize), RoundDiv(p[2], voxelSize),
                    RoundDiv(p[3], voxelSize)>>

\* Faulty variant: the centre of the cell instead of its grid point.
gridToWorldCentred(g) ==
    <<g[1] * voxelSize + 3, g[2] * voxelSize + 3, g[3] * voxelSize + 3>>

\* VoxelGridSystem.gridToWorld
gridToWorld(g) == <<g[1] * voxelSize, g[2] * voxelSize, g[3] * voxelSize>>

\* VoxelGridSystem.snapToGrid
snapToGrid(p) == <<RoundDiv(p[1], voxelSize) * voxelSize,
                   RoundDiv(p[2], voxelSize) * voxelSize,
                   RoundDiv(p[3], voxelSize) * voxelSize>>

\* VoxelGridSystem.getLinePositions: one of the three while loops.  main is
\* the driving axis, a1 the axis steered by err1, a2 the axis steered by err2;
\* d holds dx, dy, dz and s holds sx, sy, sz.
RECURSIVE LineLoop(_, _, _, _, _, _, _, _, _, _)
LineLoop(p, err1, err2, main, a1, a2, d, s, end, positions) ==
    IF p[main] = end[main]
    THEN Append(positions, end)
    ELSE LET q == [k \in 1..3 |->
                     IF k = main \/ (k = a1 /\ err1 > 0) \/ (k = a2 /\ err2 > 0)
                     THEN p[k] + s[k] ELSE p[k]]
             e1 == (IF err1 > 0 THEN err1 - 2 * d[main] ELSE err1) + 2 * d[a1]
             e2 == (IF err2 > 0 THEN err2 - 2 * d[main] ELSE err2) + 2 * d[a2]
         IN LineLoop(q, e1, e2, main, a1, a2, d, s, end, Append(positions, p))

LineDeltas(start, end) == [k \in 1..3 |-> Abs(end[k] - start[k])]

LineSteps(start, end) == [k \in 1..3 |-> IF start[k] < end[k] THEN 1 ELSE -1]

LineAlong(start, end, main, a1, a2) ==
    LET d == LineDeltas(start, end)
    IN LineLoop(start, 2 * d[a1] - d[main], 2 * d[a2] - d[main], main, a1, a2,
                d, LineSteps(start, end), end, <<>>)

\* Faulty variant: the x loop is taken whichever axis is dominant.
getLinePositionsAlongX(start, end) == LineAlong(start, end, 1, 2, 3)

getLinePositions(start, end) ==
    LET d == LineDeltas(start, end)
    IN IF d[1] >= d[2] /\ d[1] >= d[3] THEN LineAlong(start, end, 1, 2, 3)
       ELSE IF d[2] >= d[1] /\ d[2] >= d[3] THEN LineAlong(start, end, 2, 1, 3)
       ELSE LineAlong(start, end, 3, 2, 1)

\* Math.sign
Sign(a) == IF a > 0 THEN 1 ELSE IF a < 0 THEN -1 ELSE 0

\* Faulty variant: the z component is compared first.
snapToCardinalDirectionZFirst(normal) ==
    LET max == Max(Abs(normal[1]), Max(Abs(normal[2]), Abs(normal[3])))
    IN IF max = Abs(normal[3]) THEN <<0, 0, Sign(normal[3])>>
       ELSE IF max = Abs(normal[2]) THEN <<0, Sign(normal[2]), 0>>
       ELSE <<Sign(normal[1]), 0, 0>>

\* FaceDetector.snapToCardinalDirection
snapToCardinalDirection(normal) ==
    LET absX == Abs(normal[1])
        absY == Abs(normal[2])
        absZ == Abs(normal[3])
        max == Max(absX, Max(absY, absZ))
    IN IF max = absX THEN <<Sign(normal[1]), 0, 0>>
       ELSE IF max = absY THEN <<0, Sign(normal[2]), 0>>
       ELSE <<0, 0, Sign(normal[3])>>

\* ------------------------------------------- collision system (the registry)
\* isOccupied(gridPos)
isOccupied(reg, g) == g \in DOMAIN reg

\* canPlace(gridPos): false if occupied, or if the voxel count has reached the
\* configured maximum.
canPlaceVoxel(reg, g) ==
    IF isOccupied(reg, g) THEN [canPlace |-> FALSE, reason |-> "occupied"]
    ELSE IF Cardinality(DOMAIN reg) >= maxVoxelCount
    THEN [canPlace |-> FALSE, reason |-> "max-voxels"]
    ELSE [canPlace |-> TRUE, reason |-> "ok"]

\* register(voxel, gridPos): no-op if gridPos is occupied by a different voxel.
registerVoxel(reg, v, g) ==
    IF isOccupied(reg, g) /\ reg[g] # v THEN reg ELSE MapSet(reg, g, v)

\* unregister(gridPos): removes the entry; no-op if absent.
unregisterVoxel(reg, g) == MapDelete(reg, g)

\* get(gridPos): the voxel, or 0 for absent.
getVoxelAt(reg, g) == IF isOccupied(reg, g) THEN reg[g] ELSE 0

\* ------------------------------------------------------------- the world
\* Everything the commands and the extruder act on.
World == [scene |-> scene, blocks |-> blocks, registry |-> registry, vox |-> vox]

EmptyWorld == [scene |-> {}, blocks |-> EmptyMap, registry |-> EmptyMap, vox |-> EmptyMap]

\* ------------------------------------- GridBlockSystem / CreateBlockCommand
\* The blocks a command holds.
CommandBlocks(c) ==
    IF c.type = "CreateBlock" THEN SeqToSet(c.blocks)
    ELSE IF c.type = "DeleteObjects" THEN SeqToSet(c.objects)
    ELSE {}

\* GridBlockSystem.getGridKey with gridSize = 1.0: Math.round(p / 1.0) per axis,
\* in halves.
getGridKey(p) == <<RoundDiv(p[1], 2), RoundDiv(p[2], 2), RoundDiv(p[3], 2)>>

\* A block made for a cell while an older block of that cell is still referred
\* to is named the cell minus SecondBlock.
SecondBlock == 100

\* The position of block b (whole grid units, in halves), its
\* userData.gridPosition.
BlockPosition(b) == IF b <= -SecondBlock THEN <<2 * (b + SecondBlock), 0, 0>> ELSE <<2 * b, 0, 0>>

CreateBlockCommand(b) == [type |-> "CreateBlock", blocks |-> <<b>>]

RECURSIVE CreateBlockExecuteFrom(_, _, _)
CreateBlockExecuteFrom(w, c, i) ==
    IF i > Len(c.blocks) THEN w
    ELSE CreateBlockExecuteFrom(
           [w EXCEPT !.scene = @ \cup {c.blocks[i]},
                     !.blocks = MapSet(@, getGridKey(BlockPosition(c.blocks[i])),
                                       c.blocks[i])],
           c, i + 1)

\* CreateBlockCommand.execute: for each block, scene.add(block); blocks.set(key, block)
CreateBlockExecute(w, c) == CreateBlockExecuteFrom(w, c, 1)

RECURSIVE CreateBlockUndoFrom(_, _, _)
CreateBlockUndoFrom(w, c, i) ==
    IF i > Len(c.blocks) THEN w
    ELSE CreateBlockUndoFrom(
           [w EXCEPT !.blocks = MapDelete(@, getGridKey(BlockPosition(c.blocks[i]))),
                     !.scene = @ \ {c.blocks[i]}],
           c, i + 1)

\* CreateBlockCommand.undo: for each block, blocks.delete(key); scene.remove(block)
CreateBlockUndo(w, c) == CreateBlockUndoFrom(w, c, 1)

\* ----------------------------------------------------- DeleteObjectsCommand
\* constructor: the objects, each with its parent at that moment.  The command
\* is built by the 'objects-deleted' handler (App.js 682-685), after
\* deleteSelected has removed the objects, so each parent is null.
DeleteObjectsCommand(objects) == [type |-> "DeleteObjects", objects |-> objects]

\* DeleteObjectsCommand.execute: scene.remove(object) for each object.
DeleteObjectsExecute(w, c) == [w EXCEPT !.scene = @ \ SeqToSet(c.objects)]

\* DeleteObjectsCommand.undo: parent is null, so scene.add(object) for each object.
DeleteObjectsUndo(w, c) == [w EXCEPT !.scene = @ \cup SeqToSet(c.objects)]

\* SelectionSystem.deleteSelected, lines 461-469: scene.remove of each
\* selected object.
deleteSelected(w, objectsToDelete) == [w EXCEPT !.scene = @ \ SeqToSet(objectsToDelete)]

\* GridBlockSystem.deleteBlock
deleteBlock(w, position) ==
    LET key == getGridKey(position)
    IN IF key \in DOMAIN w.blocks
       THEN [w EXCEPT !.scene = @ \ {w.blocks[key]}, !.blocks = MapDelete(@, key)]
       ELSE w

\* ------------------------------------------------------------ FaceDetector
\* Faulty variant: the cell looked at is the face's own cell.
isExternalFaceAtOwnCell(faceData, reg) == ~isOccupied(reg, faceData.gridPosition)

\* FaceDetector.isExternalFace
isExternalFace(faceData, reg) ==
    LET adjacentPos == Add3(faceData.gridPosition, faceData.direction)
    IN ~isOccupied(reg, adjacentPos)

\* ----------------------------------------------------------- VoxelExtruder
\* FaceDetector.analyzeFace: the face of voxel v with outward direction dir.
Face(w, v, dir) == [object |-> v, gridPosition |-> w.vox[v].grid, direction |-> dir]

\* new THREE.Mesh(...): an object that did not exist before.
NewObject(w) ==
    CHOOSE n \in 1..(Cardinality(DOMAIN w.vox) + 1) :
        /\ n \notin DOMAIN w.vox
        /\ \A m \in 1..(n - 1) : m \in DOMAIN w.vox

\* VoxelExtruder.createVoxel: position gridToWorld(gridPos), userData.gridPosition.
createVoxel(gridPos) ==
    [grid |-> gridPos, pos |-> gridToWorld(gridPos), rot |-> <<0, 0, 0>>]

\* Faulty variant of the loop: a blocked cell is skipped (continue) instead of
\* ending the loop (break).
RECURSIVE ExtrudeFromSkipping(_, _, _, _, _)
ExtrudeFromSkipping(w, faceData, distance, i, createdVoxels) ==
    IF i > Abs(distance) THEN [world |-> w, voxels |-> createdVoxels]
    ELSE LET offset == IF distance > 0 THEN i ELSE -i
             newGridPos == Add3(faceData.gridPosition, Scale3(offset, faceData.direction))
         IN IF ~canPlaceVoxel(w.registry, newGridPos).canPlace
            THEN ExtrudeFromSkipping(w, faceData, distance, i + 1, createdVoxels)
            ELSE LET voxel == NewObject(w)
                     w1 == [w EXCEPT !.vox = MapSet(@, voxel, createVoxel(newGridPos)),
                                     !.scene = @ \cup {voxel},
                                     !.registry = registerVoxel(@, voxel, newGridPos)]
                 IN ExtrudeFromSkipping(w1, faceData, distance, i + 1,
                                        Append(createdVoxels, voxel))

\* Faulty variant of the loop: the collision check is isOccupied instead of
\* canPlaceVoxel, so the voxel limit is not consulted.
RECURSIVE ExtrudeFromIgnoringLimit(_, _, _, _, _)
ExtrudeFromIgnoringLimit(w, faceData, distance, i, createdVoxels) ==
    IF i > Abs(distance) THEN [world |-> w, voxels |-> createdVoxels]
    ELSE LET offset == IF distance > 0 THEN i ELSE -i
             newGridPos == Add3(faceData.gridPosition, Scale3(offset, faceData.direction))
         IN IF isOccupied(w.registry, newGridPos)
            THEN [world |-> w, voxels |-> createdVoxels]
            ELSE LET voxel == NewObject(w)
                     w1 == [w EXCEPT !.vox = MapSet(@, voxel, createVoxel(newGridPos)),
                                     !.scene = @ \cup {voxel},
                                     !.registry = registerVoxel(@, voxel, newGridPos)]
                 IN ExtrudeFromIgnoringLimit(w1, faceData, distance, i + 1,
                                             Append(createdVoxels, voxel))

\* extrude, lines 126-151: the loop from step i on.
RECURSIVE ExtrudeFrom(_, _, _, _, _)
ExtrudeFrom(w, faceData, distance, i, createdVoxels) ==
    IF i > Abs(distance) THEN [world |-> w, voxels |-> createdVoxels]
    ELSE LET offset == IF distance > 0 THEN i ELSE -i
             newGridPos == Add3(faceData.gridPosition, Scale3(offset, faceData.direction))
         IN IF ~canPlaceVoxel(w.registry, newGridPos).canPlace
            THEN [world |-> w, voxels |-> createdVoxels]
            ELSE LET voxel == NewObject(w)
                     w1 == [w EXCEPT !.vox = MapSet(@, voxel, createVoxel(newGridPos)),
                                     !.scene = @ \cup {voxel},
                                     !.registry = registerVoxel(@, voxel, newGridPos)]
                 IN ExtrudeFrom(w1, faceData, distance, i + 1,
                                Append(createdVoxels, voxel))

\* Faulty variant: the test of lines 118-120 is missing.
extrudeWithoutZeroTest(w, faceData, distance) ==
    LET r == ExtrudeFrom(w, faceData, distance, 1, <<>>)
    IN [world |-> r.world, success |-> TRUE, reason |-> "ok",
        voxels |-> r.voxels, count |-> Len(r.voxels)]

\* VoxelExtruder.extrude
extrude(w, faceData, distance) ==
    IF distance = 0
    THEN [world |-> w, success |-> FALSE, reason |-> "zero-distance",
          voxels |-> <<>>, count |-> 0]
    ELSE LET r == ExtrudeFrom(w, faceData, distance, 1, <<>>)
         IN [world |-> r.world, success |-> TRUE, reason |-> "ok",
             voxels |-> r.voxels, count |-> Len(r.voxels)]

\* Faulty variant of the loop: it ends at the first unoccupied cell.
RECURSIVE IntrudeFromStopping(_, _, _, _, _)
IntrudeFromStopping(w, faceData, distance, i, deletedVoxels) ==
    IF ~(i < distance) THEN [world |-> w, voxels |-> deletedVoxels]
    ELSE LET deleteGridPos == Add3(faceData.gridPosition, Scale3(-i, faceData.direction))
             voxel == getVoxelAt(w.registry, deleteGridPos)
         IN IF voxel = 0
            THEN [world |-> w, voxels |-> deletedVoxels]
            ELSE IntrudeFromStopping(
                   [w EXCEPT !.scene = @ \ {voxel},
                             !.registry = unregisterVoxel(@, deleteGridPos)],
                   faceData, distance, i + 1, Append(deletedVoxels, voxel))

\* intrude, lines 200-222: the loop from step i on.
RECURSIVE IntrudeFrom(_, _, _, _, _)
IntrudeFrom(w, faceData, distance, i, deletedVoxels) ==
    IF ~(i < distance) THEN [world |-> w, voxels |-> deletedVoxels]
    ELSE LET deleteGridPos == Add3(faceData.gridPosition, Scale3(-i, faceData.direction))
             voxel == getVoxelAt(w.registry, deleteGridPos)
         IN IF voxel = 0
            THEN IntrudeFrom(w, faceData, distance, i + 1, deletedVoxels)
            ELSE IntrudeFrom(
                   [w EXCEPT !.scene = @ \ {voxel},
                             !.registry = unregisterVoxel(@, deleteGridPos)],
                   faceData, distance, i + 1, Append(deletedVoxels, voxel))

\* Faulty variant: every face is extruded against the registry as it was
\* before the call, and the results are merged.
RECURSIVE ExtrudeMultipleFromStale(_, _, _, _, _)
ExtrudeMultipleFromStale(w, faceDataArray, distance, i, allCreatedVoxels) ==
    IF i > Len(faceDataArray) THEN [world |-> w, voxels |-> allCreatedVoxels]
    ELSE LET r == extrude([w EXCEPT !.registry =
                              Restrict(@, {K \in DOMAIN @ :
                                 @[K] \notin SeqToSet(allCreatedVoxels)})],
                          faceDataArray[i], distance)
         IN ExtrudeMultipleFromStale(
              [r.world EXCEPT !.registry =
                 [K \in DOMAIN w.registry \cup DOMAIN @ |->
                    IF K \in DOMAIN w.registry THEN w.registry[K] ELSE @[K]]],
              faceDataArray, distance, i + 1,
              IF r.success THEN allCreatedVoxels \o r.voxels ELSE allCreatedVoxels)

\* extrudeMultiple, lines 174-179: the loop from face i on.
RECURSIVE ExtrudeMultipleFrom(_, _, _, _, _)
ExtrudeMultipleFrom(w, faceDataArray, distance, i, allCreatedVoxels) ==
    IF i > Len(faceDataArray) THEN [world |-> w, voxels |-> allCreatedVoxels]
    ELSE LET r == extrude(w, faceDataArray[i], distance)
         IN ExtrudeMultipleFrom(r.world, faceDataArray, distance, i + 1,
                                IF r.success THEN allCreatedVoxels \o r.voxels
                                ELSE allCreatedVoxels)

\* VoxelExtruder.extrudeMultiple
extrudeMultiple(w, faceDataArray, distance) ==
    LET r == ExtrudeMultipleFrom(w, faceDataArray, distance, 1, <<>>)
    IN [world |-> r.world, success |-> Len(r.voxels) > 0, reason |-> "ok",
        voxels |-> r.voxels, count |-> Len(r.voxels)]

\* VoxelExtruder.intrude
intrude(w, faceData, distance) ==
    LET r == IntrudeFrom(w, faceData, distance, 0, <<>>)
    IN [world |-> r.world, success |-> Len(r.voxels) > 0, reason |-> "ok",
        voxels |-> r.voxels, count |-> Len(r.voxels)]

\* ----------------------------------------------------------- DeleteCommand
\* constructor: copies of gridPosition, position, rotation of each object.
DeleteCommand(w, objects) ==
    [type |-> "Delete",
     objectData |-> [i \in 1..Len(objects) |->
                       [object |-> objects[i],
                        gridPosition |-> w.vox[objects[i]].grid,
                        position |-> w.vox[objects[i]].pos,
                        rotation |-> w.vox[objects[i]].rot]]]

RECURSIVE DeleteExecuteFrom(_, _, _)
DeleteExecuteFrom(w, c, i) ==
    IF i > Len(c.objectData) THEN w
    ELSE DeleteExecuteFrom(
           [w EXCEPT !.scene = @ \ {c.objectData[i].object},
                     !.registry = unregisterVoxel(@, c.objectData[i].gridPosition)],
           c, i + 1)

\* DeleteCommand.execute
DeleteExecute(w, c) == DeleteExecuteFrom(w, c, 1)

RECURSIVE DeleteUndoFrom(_, _, _)
DeleteUndoFrom(w, c, i) ==
    IF i > Len(c.objectData) THEN w
    ELSE LET data == c.objectData[i]
         IN DeleteUndoFrom(
              [w EXCEPT !.scene = @ \cup {data.object},
                        !.vox[data.object] = [grid |-> data.gridPosition,
                                              pos |-> data.position,
                                              rot |-> data.rotation],
                        !.registry = registerVoxel(@, data.object, data.gridPosition)],
              c, i + 1)

\* DeleteCommand.undo
DeleteUndo(w, c) == DeleteUndoFrom(w, c, 1)

\* ------------------------------------------------------------- MoveCommand
MoveCommand(objects, fromPositions, toPositions) ==
    [type |-> "Move", objects |-> objects, fromPositions |-> fromPositions,
     toPositions |-> toPositions]

RECURSIVE MoveExecuteFrom(_, _, _)
MoveExecuteFrom(w, c, i) ==
    IF i > Len(c.objects) THEN w
    ELSE LET object == c.objects[i]
             toPos == c.toPositions[i]
             fromGridPos == worldToGrid(c.fromPositions[i])
             toGridPos == worldToGrid(toPos)
         IN MoveExecuteFrom(
              [w EXCEPT !.registry = registerVoxel(unregisterVoxel(@, fromGridPos),
                                                   object, toGridPos),
                        !.vox[object].pos = toPos,
                        !.vox[object].grid = toGridPos],
              c, i + 1)

\* MoveCommand.execute
MoveExecute(w, c) == MoveExecuteFrom(w, c, 1)

RECURSIVE MoveUndoFrom(_, _, _)
MoveUndoFrom(w, c, i) ==
    IF i > Len(c.objects) THEN w
    ELSE LET object == c.objects[i]
             fromPos == c.fromPositions[i]
             fromGridPos == worldToGrid(fromPos)
             toGridPos == worldToGrid(c.toPositions[i])
         IN MoveUndoFrom(
              [w EXCEPT !.registry = registerVoxel(unregisterVoxel(@, toGridPos),
                                                   object, fromGridPos),
                        !.vox[object].pos = fromPos,
                        !.vox[object].grid = fromGridPos],
              c, i + 1)

\* MoveCommand.undo
MoveUndo(w, c) == MoveUndoFrom(w, c, 1)

\* ----------------------------------------------------------- RotateCommand
\* angle in quarter turns; axis 1, 2, 3 for 'x', 'y', 'z'.
RotateCommand(w, objects, axis, angle) ==
    [type |-> "Rotate", objects |-> objects, axis |-> axis, angle |-> angle,
     originalRotations |-> [i \in 1..Len(objects) |-> w.vox[objects[i]].rot],
     originalPositions |-> [i \in 1..Len(objects) |-> w.vox[objects[i]].pos],
     originalGridPositions |-> [i \in 1..Len(objects) |-> w.vox[objects[i]].grid]]

RECURSIVE RotateExecuteFrom(_, _, _)
RotateExecuteFrom(w, c, i) ==
    IF i > Len(c.objects) THEN w
    ELSE LET object == c.objects[i]
             snappedPos == snapToGrid(w.vox[object].pos)
             newGridPos == worldToGrid(snappedPos)
             oldGridPos == c.originalGridPositions[i]
         IN RotateExecuteFrom(
              [w EXCEPT !.vox[object].rot[c.axis] = @ + c.angle,
                        !.registry = registerVoxel(unregisterVoxel(@, oldGridPos),
                                                   object, newGridPos),
                        !.vox[object].pos = snappedPos,
                        !.vox[object].grid = newGridPos],
              c, i + 1)

\* RotateCommand.execute
RotateExecute(w, c) == RotateExecuteFrom(w, c, 1)

RECURSIVE RotateUndoFrom(_, _, _)
RotateUndoFrom(w, c, i) ==
    IF i > Len(c.objects) THEN w
    ELSE LET object == c.objects[i]
             originalPosition == c.originalPositions[i]
             originalGridPos == c.originalGridPositions[i]
         IN RotateUndoFrom(
              [w EXCEPT !.vox[object].rot = c.originalRotations[i],
                        !.vox[object].pos = originalPosition,
                        !.vox[object].grid = originalGridPos,
                        \* unregisterVoxel(worldToGrid(object.position)): the position
                        \* has already been restored
                        !.registry = registerVoxel(
                                       unregisterVoxel(@, worldToGrid(originalPosition)),
                                       object, originalGridPos)],
              c, i + 1)

\* RotateCommand.undo
RotateUndo(w, c) == RotateUndoFrom(w, c, 1)

\* ---------------------------------------------------------- ExtrudeCommand
ExtrudeCommand(createdVoxels) == [type |-> "Extrude", createdVoxels |-> createdVoxels]

RECURSIVE ExtrudeExecuteFrom(_, _, _)
ExtrudeExecuteFrom(w, c, i) ==
    IF i > Len(c.createdVoxels) THEN w
    ELSE LET voxel == c.createdVoxels[i]
         IN ExtrudeExecuteFrom(
              [w EXCEPT !.scene = @ \cup {voxel},
                        !.registry = registerVoxel(@, voxel, w.vox[voxel].grid)],
              c, i + 1)

\* ExtrudeCommand.execute
ExtrudeExecute(w, c) == ExtrudeExecuteFrom(w, c, 1)

RECURSIVE ExtrudeUndoFrom(_, _, _)
ExtrudeUndoFrom(w, c, i) ==
    IF i > Len(c.createdVoxels) THEN w
    ELSE LET voxel == c.createdVoxels[i]
         IN ExtrudeUndoFrom(
              [w EXCEPT !.scene = @ \ {voxel},
                        !.registry = unregisterVoxel(@, w.vox[voxel].grid)],
              c, i + 1)

\* ExtrudeCommand.undo
ExtrudeUndo(w, c) == ExtrudeUndoFrom(w, c, 1)

\* ------------------------------------------------------- command dispatch
\* command.execute()
CommandExecute(w, c) ==
    CASE c.type = "CreateBlock" -> CreateBlockExecute(w, c)
      [] c.type = "DeleteObjects" -> DeleteObjectsExecute(w, c)
      [] c.type = "Delete"      -> DeleteExecute(w, c)
      [] c.type = "Move"        -> MoveExecute(w, c)
      [] c.type = "Rotate"      -> RotateExecute(w, c)
      [] c.type = "Extrude"     -> ExtrudeExecute(w, c)

\* command.undo()
CommandUndo(w, c) ==
    CASE c.type = "CreateBlock" -> CreateBlockUndo(w, c)
      [] c.type = "DeleteObjects" -> DeleteObjectsUndo(w, c)
      [] c.type = "Delete"      -> DeleteUndo(w, c)
      [] c.type = "Move"        -> MoveUndo(w, c)
      [] c.type = "Rotate"      -> RotateUndo(w, c)
      [] c.type = "Extrude"     -> ExtrudeUndo(w, c)

\* The objects a command holds references to.
CommandObjects(c) ==
    CASE c.type = "CreateBlock" -> {}
      [] c.type = "DeleteObjects" -> {}
      [] c.type = "Delete"      -> {c.objectData[i].object : i \in 1..Len(c.objectData)}
      [] c.type = "Move"        -> SeqToSet(c.objects)
      [] c.type = "Rotate"      -> SeqToSet(c.objects)
      [] c.type = "Extrude"     -> SeqToSet(c.createdVoxels)

StackObjects(st) == UNION {CommandObjects(st[i]) : i \in 1..Len(st)}

\* Objects still referenced from somewhere; the others are garbage.
Reachable(w, us, rs, fs) ==
    w.scene \cup Range(w.registry) \cup StackObjects(us) \cup StackObjects(rs)
      \cup UNION {CommandObjects(fs[i].cmd) : i \in 1..Len(fs)}

\* The world becomes w; unreferenced objects are dropped.
SetWorld(w) ==
    /\ scene' = w.scene
    /\ blocks' = w.blocks
    /\ registry' = w.registry
    /\ vox' = Restrict(w.vox, Reachable(w, undoStack', redoStack', frames'))

\* ------------------------------------------------------------ UndoManager
\* Faulty variant: over the limit, the newest command is dropped (pop) instead
\* of the oldest (shift).
PushLimitedDropsNewest(us, c, max) ==
    LET pushed == Append(us, c)
    IN IF Len(pushed) > max THEN Front(pushed) ELSE pushed

\* this.undoStack.push(command); if (length > maxHistorySize) shift()
PushLimited(us, c, max) ==
    LET pushed == Append(us, c)
    IN IF Len(pushed) > max THEN Tail(pushed) ELSE pushed

\* undo: this.redoStack.push(command)
PushRedo(rs, c) == Append(rs, c)

\* Faulty variant: the redone command goes to the bottom of the undo stack
\* (unshift instead of push).
PushUndoAtBottom(us, c) == <<c>> \o us

\* redo: this.undoStack.push(command)
PushUndo(us, c) == Append(us, c)

\* setMaxHistorySize: while (undoStack.length > maxHistorySize) undoStack.shift()
RECURSIVE TrimOldest(_, _)
TrimOldest(us, max) == IF Len(us) > max THEN TrimOldest(Tail(us), max) ELSE us

\* setMaxHistorySize: Math.max(1, size)
ClampSize(size) == Max(1, size)

getStatus == [canUndo   |-> Len(undoStack) > 0,
              canRedo   |-> Len(redoStack) > 0,
              undoCount |-> Len(undoStack),
              redoCount |-> Len(redoStack)]

\* An undo() or redo() call is on the call stack.
InProgress == frames # <<>>

NoEvents == {}

Obs(op, outcome, cmd, inUR, ev) ==
    [op |-> op, outcome |-> outcome, cmd |-> cmd, inUR |-> inUR, emitted |-> ev]

Stacks == [undo |-> undoStack, redo |-> redoStack]

\* ------------------------------------------------------- UndoManager.execute
\* Faulty variant: the redo stack is not cleared (line 38 missing).
ExecuteKeepingRedo(c, throws) ==
    /\ UNCHANGED <<maxHistorySize, isUndoing, isRedoing, frames, maxVoxelCount, preview, pc, manip, app, bus, det>>
    /\ IF isUndoing \/ isRedoing
       THEN /\ UNCHANGED <<undoStack, redoStack>>
            /\ SetWorld(World)
            /\ last' = Obs("execute", "ignored", c, InProgress, NoEvents)
       ELSE IF throws
       THEN /\ UNCHANGED <<undoStack, redoStack>>
            /\ SetWorld(World)
            /\ last' = Obs("execute", "threw", c, InProgress, NoEvents)
       ELSE /\ undoStack' = PushLimited(undoStack, c, maxHistorySize)
            /\ redoStack' = redoStack
            /\ SetWorld(CommandExecute(World, c))
            /\ last' = Obs("execute", "ok", c, InProgress,
                           {"command-executed", "undo-status-changed"})

\* Faulty variant: the command is pushed, and the redo stack cleared, before
\* command.execute() runs, so a throwing command stays recorded.
ExecuteRecordingFirst(c, throws) ==
    /\ UNCHANGED <<maxHistorySize, isUndoing, isRedoing, frames, maxVoxelCount, preview, pc, manip, app, bus, det>>
    /\ IF isUndoing \/ isRedoing
       THEN /\ UNCHANGED <<undoStack, redoStack>>
            /\ SetWorld(World)
            /\ last' = Obs("execute", "ignored", c, InProgress, NoEvents)
       ELSE IF throws
       THEN /\ undoStack' = PushLimited(undoStack, c, maxHistorySize)
            /\ redoStack' = <<>>
            /\ SetWorld(World)
            /\ last' = Obs("execute", "threw", c, InProgress, NoEvents)
       ELSE /\ undoStack' = PushLimited(undoStack, c, maxHistorySize)
            /\ redoStack' = <<>>
            /\ SetWorld(CommandExecute(World, c))
            /\ last' = Obs("execute", "ok", c, InProgress,
                           {"command-executed", "undo-status-changed"})

\* The whole call: guard, command.execute(), push, clear redo, evict, emit.
\* throws: command.execute() throws.
Execute(c, throws) ==
    /\ UNCHANGED <<maxHistorySize, isUndoing, isRedoing, frames, maxVoxelCount, preview, pc, manip, app, bus, det>>
    /\ IF isUndoing \/ isRedoing
       THEN /\ UNCHANGED <<undoStack, redoStack>>
            /\ SetWorld(World)
            /\ last' = Obs("execute", "ignored", c, InProgress, NoEvents)
       ELSE IF throws
       THEN /\ UNCHANGED <<undoStack, redoStack>>
            /\ SetWorld(World)
            /\ last' = Obs("execute", "threw", c, InProgress, NoEvents)
       ELSE /\ undoStack' = PushLimited(undoStack, c, maxHistorySize)
            /\ redoStack' = <<>>
            /\ SetWorld(CommandExecute(World, c))
            /\ last' = Obs("execute", "ok", c, InProgress,
                           {"command-executed", "undo-status-changed"})

\* ---------------------------------------------------------- UndoManager.undo
NewFrame(op, c) == [op |-> op, cmd |-> c, pc |-> "cmd"]

\* undo(), lines 59-68: empty check, isUndoing = true, pop; command.undo() starts.
\* Faulty variant: the flag is raised before the stack is looked at.
UndoCallRaisingFlag ==
    /\ Len(frames) < MaxDepth
    /\ UNCHANGED <<maxHistorySize, isRedoing, worldVars, redoStack, maxVoxelCount, preview, pc, manip, app, bus, det>>
    /\ isUndoing' = TRUE
    /\ IF undoStack = <<>>
       THEN /\ UNCHANGED <<undoStack, frames>>
            /\ last' = Obs("undo", "noop", 0, InProgress, NoEvents)
       ELSE /\ undoStack' = Front(undoStack)
            /\ frames' = Append(frames, NewFrame("undo", Last(undoStack)))
            /\ last' = Obs("undo", "called", Last(undoStack), InProgress, NoEvents)

UndoCall ==
    /\ Len(frames) < MaxDepth
    /\ UNCHANGED <<maxHistorySize, isRedoing, worldVars, redoStack, maxVoxelCount, preview, pc, manip, app, bus, det>>
    /\ IF undoStack = <<>>
       THEN /\ UNCHANGED <<undoStack, isUndoing, frames>>
            /\ last' = Obs("undo", "noop", 0, InProgress, NoEvents)
       ELSE /\ isUndoing' = TRUE
            /\ undoStack' = Front(undoStack)
            /\ frames' = Append(frames, NewFrame("undo", Last(undoStack)))
            /\ last' = Obs("undo", "called", Last(undoStack), InProgress, NoEvents)

\* Faulty variant: the flag is cleared on the normal path only.
UndoThrowsKeepingFlag ==
    /\ frames # <<>>
    /\ Last(frames).op = "undo"
    /\ Last(frames).pc = "cmd"
    /\ UNCHANGED isUndoing
    /\ frames' = Front(frames)
    /\ last' = Obs("undo", "threw", Last(frames).cmd, Len(frames) > 1, NoEvents)
    /\ UNCHANGED <<undoStack, redoStack, maxHistorySize, isRedoing, maxVoxelCount, preview, pc, manip, app, bus, det>>
    /\ SetWorld(World)

\* command.undo() throws: catch rethrows, finally clears the flag (lines 79-84).
UndoThrows ==
    /\ frames # <<>>
    /\ Last(frames).op = "undo"
    /\ Last(frames).pc = "cmd"
    /\ isUndoing' = FALSE
    /\ frames' = Front(frames)
    /\ last' = Obs("undo", "threw", Last(frames).cmd, Len(frames) > 1, NoEvents)
    /\ UNCHANGED <<undoStack, redoStack, maxHistorySize, isRedoing, maxVoxelCount, preview, pc, manip, app, bus, det>>
    /\ SetWorld(World)

\* command.undo() returns: push on the redo stack, emit 'command-undone' and,
\* from updateUI, 'undo-status-changed' (lines 69-75); handlers run.
UndoCommandDone ==
    /\ frames # <<>>
    /\ Last(frames).op = "undo"
    /\ Last(frames).pc = "cmd"
    /\ redoStack' = PushRedo(redoStack, Last(frames).cmd)
    /\ frames' = [frames EXCEPT ![Len(frames)].pc = "emit"]
    /\ last' = Obs("undo", "step", Last(frames).cmd, Len(frames) > 1,
                   {"command-undone", "undo-status-changed"})
    /\ UNCHANGED <<undoStack, maxHistorySize, isUndoing, isRedoing, maxVoxelCount, preview, pc, manip, app, bus, det>>
    /\ SetWorld(CommandUndo(World, Last(frames).cmd))

\* undo() returns normally: finally clears the flag (lines 82-84).
UndoReturn ==
    /\ frames # <<>>
    /\ Last(frames).op = "undo"
    /\ Last(frames).pc = "emit"
    /\ isUndoing' = FALSE
    /\ frames' = Front(frames)
    /\ last' = Obs("undo", "ok", Last(frames).cmd, Len(frames) > 1, NoEvents)
    /\ UNCHANGED <<undoStack, redoStack, maxHistorySize, isRedoing, worldVars,
                   maxVoxelCount, preview, pc, manip, app, bus, det>>

\* ---------------------------------------------------------- UndoManager.redo
\* redo(), lines 90-99: empty check, isRedoing = true, pop; command.execute() starts.
RedoCall ==
    /\ Len(frames) < MaxDepth
    /\ UNCHANGED <<maxHistorySize, isUndoing, worldVars, undoStack, maxVoxelCount, preview, pc, manip, app, bus, det>>
    /\ IF redoStack = <<>>
       THEN /\ UNCHANGED <<redoStack, isRedoing, frames>>
            /\ last' = Obs("redo", "noop", 0, InProgress, NoEvents)
       ELSE /\ isRedoing' = TRUE
            /\ redoStack' = Front(redoStack)
            /\ frames' = Append(frames, NewFrame("redo", Last(redoStack)))
            /\ last' = Obs("redo", "called", Last(redoStack), InProgress, NoEvents)

\* command.execute() throws during redo: catch rethrows, finally clears the flag.
RedoThrows ==
    /\ frames # <<>>
    /\ Last(frames).op = "redo"
    /\ Last(frames).pc = "cmd"
    /\ isRedoing' = FALSE
    /\ frames' = Front(frames)
    /\ last' = Obs("redo", "threw", Last(frames).cmd, Len(frames) > 1, NoEvents)
    /\ UNCHANGED <<undoStack, redoStack, maxHistorySize, isUndoing, maxVoxelCount, preview, pc, manip, app, bus, det>>
    /\ SetWorld(World)

\* command.execute() returns during redo: push on the undo stack, emit
\* 'command-redone' and 'undo-status-changed' (lines 100-106); handlers run.
RedoCommandDone ==
    /\ frames # <<>>
    /\ Last(frames).op = "redo"
    /\ Last(frames).pc = "cmd"
    /\ undoStack' = PushUndo(undoStack, Last(frames).cmd)
    /\ frames' = [frames EXCEPT ![Len(frames)].pc = "emit"]
    /\ last' = Obs("redo", "step", Last(frames).cmd, Len(frames) > 1,
                   {"command-redone", "undo-status-changed"})
    /\ UNCHANGED <<redoStack, maxHistorySize, isUndoing, isRedoing, maxVoxelCount, preview, pc, manip, app, bus, det>>
    /\ SetWorld(CommandExecute(World, Last(frames).cmd))

\* redo() returns normally: finally clears the flag (lines 113-115).
RedoReturn ==
    /\ frames # <<>>
    /\ Last(frames).op = "redo"
    /\ Last(frames).pc = "emit"
    /\ isRedoing' = FALSE
    /\ frames' = Front(frames)
    /\ last' = Obs("redo", "ok", Last(frames).cmd, Len(frames) > 1, NoEvents)
    /\ UNCHANGED <<undoStack, redoStack, maxHistorySize, isUndoing, worldVars,
                   maxVoxelCount, preview, pc, manip, app, bus, det>>

\* --------------------------------------------------------- UndoManager.clear
Clear ==
    /\ undoStack' = <<>>
    /\ redoStack' = <<>>
    /\ last' = Obs("clear", "ok", 0, InProgress, {"undo-status-changed"})
    /\ UNCHANGED <<maxHistorySize, isUndoing, isRedoing, frames, maxVoxelCount, preview, pc, manip, app, bus, det>>
    /\ SetWorld(World)

\* ---------------------------------------------- UndoManager.setMaxHistorySize
SetMaxHistorySize(size) ==
    /\ maxHistorySize' = ClampSize(size)
    /\ undoStack' = TrimOldest(undoStack, ClampSize(size))
    /\ last' = Obs("setMaxHistorySize", "ok", size, InProgress, NoEvents)
    /\ UNCHANGED <<redoStack, isUndoing, isRedoing, frames, maxVoxelCount, preview, pc, manip, app, bus, det>>
    /\ SetWorld(World)

\* ----------------------------------------------------------- observations
\* Round trips: started by a successful execute, extended by complete undos
\* and then redos, dropped by anything else.
RtOff == [on |-> FALSE, U |-> <<>>, R |-> <<>>, W |-> EmptyWorld,
          undone |-> <<>>, redone |-> <<>>]

RtStart(us, rs, w) == [on |-> TRUE, U |-> us, R |-> rs, W |-> w,
                       undone |-> <<>>, redone |-> <<>>]

RtUndo(c) == IF rt.on /\ rt.redone = <<>>
             THEN [rt EXCEPT !.undone = Append(@, c)]
             ELSE RtOff

RtRedo(c) == IF rt.on /\ Len(rt.redone) < Len(rt.undone)
             THEN [rt EXCEPT !.redone = Append(@, c)]
             ELSE RtOff

\* A run of successful executes on a history that was empty.
RunOff == [on |-> FALSE, log |-> <<>>]

RunEmpty == [on |-> TRUE, log |-> <<>>]

ObserveExecute ==
    /\ UNCHANGED <<result, before>>
    /\ pre' = Stacks
    /\ rt' = IF last'.outcome = "ok"
             THEN RtStart(undoStack', redoStack',
                          [scene |-> scene', blocks |-> blocks',
                           registry |-> registry', vox |-> vox'])
             ELSE RtOff
    /\ run' = IF last'.outcome # "ok" THEN run
              ELSE IF run.on THEN [run EXCEPT !.log = Append(@, last'.cmd)]
              ELSE RunOff
    /\ since' = IF last'.outcome = "ok" THEN {} ELSE since

ObserveCall ==
    /\ UNCHANGED <<result, before>>
    /\ pre' = Stacks
    /\ rt' = IF last'.outcome = "noop" THEN RtOff ELSE rt
    /\ run' = IF last'.outcome = "noop" THEN run ELSE RunOff
    /\ UNCHANGED since

ObserveThrow == rt' = RtOff /\ UNCHANGED <<result, before, pre, run, since>>

ObserveUndoStep ==
    since' = since \cup {last'.cmd} /\ UNCHANGED <<result, before, pre, rt, run>>

ObserveRedoStep == UNCHANGED <<result, before, pre, rt, run, since>>

ObserveUndoReturn ==
    rt' = RtUndo(last'.cmd) /\ UNCHANGED <<result, before, pre, run, since>>

ObserveRedoReturn ==
    rt' = RtRedo(last'.cmd) /\ UNCHANGED <<result, before, pre, run, since>>

ObserveClear ==
    pre' = Stacks /\ rt' = RtOff /\ run' = RunEmpty /\ UNCHANGED <<result, before, since>>

ObserveSetMax ==
    /\ UNCHANGED <<result, before>>
    /\ pre' = Stacks
    /\ rt' = RtOff
    /\ run' = IF run.on /\ run.log = <<>> THEN run ELSE RunOff
    /\ UNCHANGED since

\* -------------------------------------------------------------- previews
\* The preview meshes are children of the scene that are kept apart from the
\* placed objects: every push to a preview array is paired with scene.add and
\* every reset of the array with scene.remove of its elements.
NoPreview ==
    [extrusionPreview |-> <<>>, isExtruding |-> FALSE,
     previewMeshes |-> <<>>, originalObjects |-> <<>>, isActive |-> FALSE,
     currentValid |-> TRUE,
     isCreating |-> FALSE, startCorner |-> <<>>, endCorner |-> <<>>,
     previewBlocks |-> <<>>, maxBlocks |-> DefaultMaxBlocks]

\* The world and the preview state an operation leaves.
State(w, pv) == [world |-> w, preview |-> pv]

\* VoxelExtruder.clearPreview
clearPreview(w, pv) ==
    State(w, [pv EXCEPT !.extrusionPreview = <<>>, !.isExtruding = FALSE])

\* VoxelExtruder.createPreviewVoxel
createPreviewVoxel(worldPos, color) ==
    [pos |-> worldPos, color |-> color, isPreview |-> TRUE]

\* Faulty variant of the loop: a preview voxel that can be placed is also
\* registered.
RECURSIVE CreatePreviewFromRegistering(_, _, _, _, _)
CreatePreviewFromRegistering(w, pv, faceData, distance, i) ==
    IF i > Abs(distance) THEN State(w, [pv EXCEPT !.isExtruding = TRUE])
    ELSE LET offset == IF distance > 0 THEN i ELSE -i
             newGridPos == Add3(faceData.gridPosition, Scale3(offset, faceData.direction))
             collision == canPlaceVoxel(w.registry, newGridPos)
             color == IF collision.canPlace THEN "valid" ELSE "invalid"
             p == createPreviewVoxel(gridToWorld(newGridPos), color)
             voxel == NewObject(w)
             w1 == IF collision.canPlace
                   THEN [w EXCEPT !.vox = MapSet(@, voxel, createVoxel(newGridPos)),
                                  !.registry = registerVoxel(@, voxel, newGridPos)]
                   ELSE w
         IN CreatePreviewFromRegistering(
              w1, [pv EXCEPT !.extrusionPreview = Append(@, p)], faceData, distance, i + 1)

\* VoxelExtruder.createPreview, lines 244-265: the loop from step i on.
RECURSIVE CreatePreviewFrom(_, _, _, _, _)
CreatePreviewFrom(w, pv, faceData, distance, i) ==
    IF i > Abs(distance) THEN State(w, [pv EXCEPT !.isExtruding = TRUE])
    ELSE LET offset == IF distance > 0 THEN i ELSE -i
             newGridPos == Add3(faceData.gridPosition, Scale3(offset, faceData.direction))
             collision == canPlaceVoxel(w.registry, newGridPos)
             color == IF collision.canPlace THEN "valid" ELSE "invalid"
             p == createPreviewVoxel(gridToWorld(newGridPos), color)
         IN CreatePreviewFrom(
              w, [pv EXCEPT !.extrusionPreview = Append(@, p)], faceData, distance, i + 1)

\* VoxelExtruder.createPreview
createPreview(w, pv, faceData, distance) ==
    LET s == clearPreview(w, pv)
    IN CreatePreviewFrom(s.world, s.preview, faceData, distance, 1)

\* GhostPreview.createGhostMesh
createGhostMesh(w, originalObject) ==
    [pos |-> w.vox[originalObject].pos, color |-> "neutral", isGhost |-> TRUE]

\* GhostPreview.clear
GhostClear(w, pv) ==
    State(w, [pv EXCEPT !.previewMeshes = <<>>, !.originalObjects = <<>>,
                        !.isActive = FALSE, !.currentValid = TRUE])

\* GhostPreview.create
GhostCreate(w, pv, objects) ==
    LET s == IF pv.isActive THEN GhostClear(w, pv) ELSE State(w, pv)
    IN State(s.world,
             [s.preview EXCEPT
                 !.originalObjects = objects,
                 !.previewMeshes = [i \in 1..Len(objects) |-> createGhostMesh(s.world, objects[i])],
                 !.isActive = TRUE])

\* GhostPreview.updatePositions, lines 123-155: the mesh of object i.
UpdatedGhostMesh(w, pv, offset, snap, i) ==
    LET newPosition == Add3(w.vox[pv.originalObjects[i]].pos, offset)
        finalPosition == IF snap THEN snapToGrid(newPosition) ELSE newPosition
        color == IF snap
                 THEN IF canPlaceVoxel(w.registry, worldToGrid(finalPosition)).canPlace
                      THEN "valid" ELSE "invalid"
                 ELSE "neutral"
    IN [pv.previewMeshes[i] EXCEPT !.pos = finalPosition, !.color = color]

\* GhostPreview.updatePositions
updatePositions(w, pv, offset, snap) ==
    IF ~pv.isActive THEN State(w, pv)
    ELSE LET meshes == [i \in 1..Len(pv.previewMeshes) |->
                           UpdatedGhostMesh(w, pv, offset, snap, i)]
         IN State(w, [pv EXCEPT
                        !.previewMeshes = meshes,
                        !.currentValid = \A i \in 1..Len(meshes) :
                                            meshes[i].color # "invalid"])

\* GridBlockSystem.gridSize = 1.0, in halves.
gridSize == 1 + 1

\* GridBlockSystem.snapToGrid
BlockSnapToGrid(position) ==
    <<RoundDiv(position[1], gridSize) * gridSize,
      RoundDiv(position[2], gridSize) * gridSize,
      RoundDiv(position[3], gridSize) * gridSize>>

\* GridBlockSystem.isOccupied
BlockIsOccupied(w, position) == getGridKey(position) \in DOMAIN w.blocks

\* Faulty variant: every position counts as touching.
isTouchingAnything(w, position) == TRUE

\* GridBlockSystem.isTouchingExisting
isTouchingExisting(w, position) ==
    \E offset \in {<<gridSize, 0, 0>>, <<-gridSize, 0, 0>>, <<0, gridSize, 0>>,
                    <<0, -gridSize, 0>>, <<0, 0, gridSize>>, <<0, 0, -gridSize>>} :
        BlockIsOccupied(w, Add3(position, offset))

\* GridBlockSystem.clearPreview
ClearVolumePreview(w, pv) == State(w, [pv EXCEPT !.previewBlocks = <<>>])

\* GridBlockSystem.updateVolumePreview, lines 452-473: the loop over x from x
\* on; both corners have the same y and z, so the inner loops run once.
RECURSIVE UpdateVolumePreviewFrom(_, _, _, _)
UpdateVolumePreviewFrom(w, pv, x, maxX) ==
    IF x > maxX THEN State(w, pv)
    ELSE LET pos == <<x, pv.startCorner[2], pv.startCorner[3]>>
             shown == /\ ~BlockIsOccupied(w, pos)
                      /\ (DOMAIN w.blocks = {} \/ isTouchingExisting(w, pos))
         IN UpdateVolumePreviewFrom(
              w, IF shown THEN [pv EXCEPT !.previewBlocks = Append(@, pos)] ELSE pv,
              x + gridSize, maxX)

\* GridBlockSystem.updateVolumePreview
updateVolumePreview(w, pv) ==
    LET s == ClearVolumePreview(w, pv)
        minX == IF pv.startCorner[1] < pv.endCorner[1]
                THEN pv.startCorner[1] ELSE pv.endCorner[1]
        maxX == Max(pv.startCorner[1], pv.endCorner[1])
    IN UpdateVolumePreviewFrom(s.world, s.preview, minX, maxX)

\* GridBlockSystem.startVolume
startVolume(w, pv, pinchData) ==
    updateVolumePreview(w, [pv EXCEPT !.isCreating = TRUE,
                                      !.startCorner = BlockSnapToGrid(pinchData.leftPosition),
                                      !.endCorner = BlockSnapToGrid(pinchData.rightPosition)])

\* GridBlockSystem.updateVolume
updateVolume(w, pv, pinchData) ==
    updateVolumePreview(w, [pv EXCEPT !.endCorner = BlockSnapToGrid(pinchData.rightPosition)])

\* Blocks some command or the scene still refers to.
BlocksInUse ==
    scene \cup UNION {CommandBlocks(undoStack[i]) : i \in 1..Len(undoStack)}
          \cup UNION {CommandBlocks(redoStack[i]) : i \in 1..Len(redoStack)}
          \cup UNION {CommandBlocks(frames[i].cmd) : i \in 1..Len(frames)}

\* The block created at a position, a new THREE.Mesh: BlockPosition(b) is that
\* position, and b is none of the blocks still referred to.
BlockAt(position) ==
    LET cell == position[1] \div gridSize
    IN IF cell \in BlocksInUse THEN cell - SecondBlock ELSE cell

\* GridBlockSystem.finalizeVolume, lines 527-548: the loop from preview block i on.
RECURSIVE FinalizeVolumeFrom(_, _, _)
FinalizeVolumeFrom(w, pv, i) ==
    IF i > Len(pv.previewBlocks) THEN w
    ELSE LET position == pv.previewBlocks[i]
             block == BlockAt(position)
         IN FinalizeVolumeFrom(
              [w EXCEPT !.scene = @ \cup {block},
                        !.blocks = MapSet(@, getGridKey(position), block)],
              pv, i + 1)

\* GridBlockSystem.finalizeVolume
finalizeVolume(w, pv) ==
    IF Len(pv.previewBlocks) = 0 THEN State(w, [pv EXCEPT !.isCreating = FALSE])
    ELSE LET w1 == FinalizeVolumeFrom(w, pv, 1)
             s == ClearVolumePreview(w1, pv)
         IN State(s.world, [s.preview EXCEPT !.isCreating = FALSE,
                                             !.startCorner = <<>>,
                                             !.endCorner = <<>>])

\* --------------------------------------------- statement by statement
\* The loops of extrude, intrude, DeleteCommand and ExtrudeCommand, one
\* statement at a time.  Every loop body has one statement on the scene and
\* one on the registry; pc.voxel is the voxel the body is working on between
\* the two, pc.cell its cell.  kept is the command the caller holds, done
\* whether it is executed.
NoCommand == [type |-> "none"]

Idle ==
    [op |-> "idle", face |-> <<>>, distance |-> 0, cmd |-> NoCommand, i |-> 0,
     voxel |-> 0, cell |-> <<>>, voxels |-> <<>>, kept |-> NoCommand, done |-> FALSE]

\* The loop condition is false.
LoopDone(p) ==
    CASE p.op = "extrude" -> p.i > Abs(p.distance)
      [] p.op = "intrude" -> ~(p.i < p.distance)
      [] p.op \in {"Delete.execute", "Delete.undo"} -> p.i > Len(p.cmd.objectData)
      [] p.op \in {"Extrude.execute", "Extrude.undo"} -> p.i > Len(p.cmd.createdVoxels)

\* The operation returns; the caller keeps the command.  After an extrusion
\* that created voxels the caller records a new ExtrudeCommand, or does not.
Return(p, record) ==
    [Idle EXCEPT
       !.kept = CASE p.op = "extrude" ->
                       IF record /\ Len(p.voxels) > 0
                       THEN ExtrudeCommand(p.voxels) ELSE p.kept
                  [] p.op = "intrude" -> p.kept
                  [] OTHER -> p.cmd,
       !.done = CASE p.op = "extrude" ->
                       IF record /\ Len(p.voxels) > 0 THEN TRUE ELSE p.done
                  [] p.op = "intrude" -> p.done
                  [] OTHER -> p.op \in {"Delete.execute", "Extrude.execute"}]

\* The loop body up to and including its statement on the scene.
\*   extrude 127-147, intrude 201-213, DeleteCommand 32 and 43-49,
\*   ExtrudeCommand 30-31 and 42
SceneStatement(w, p) ==
    CASE p.op = "extrude" ->
           LET offset == IF p.distance > 0 THEN p.i ELSE -p.i
               newGridPos == Add3(p.face.gridPosition, Scale3(offset, p.face.direction))
               voxel == NewObject(w)
           IN IF ~canPlaceVoxel(w.registry, newGridPos).canPlace
              THEN State(w, [p EXCEPT !.i = Abs(p.distance) + 1])
              ELSE State([w EXCEPT !.vox = MapSet(@, voxel, createVoxel(newGridPos)),
                                   !.scene = @ \cup {voxel}],
                         [p EXCEPT !.voxel = voxel, !.cell = newGridPos,
                                   !.voxels = Append(@, voxel)])
      [] p.op = "intrude" ->
           LET deleteGridPos == Add3(p.face.gridPosition, Scale3(-p.i, p.face.direction))
               voxel == getVoxelAt(w.registry, deleteGridPos)
           IN IF voxel = 0
              THEN State(w, [p EXCEPT !.i = @ + 1])
              ELSE State([w EXCEPT !.scene = @ \ {voxel}],
                         [p EXCEPT !.voxel = voxel, !.cell = deleteGridPos,
                                   !.voxels = Append(@, voxel)])
      [] p.op = "Delete.execute" ->
           LET data == p.cmd.objectData[p.i]
           IN State([w EXCEPT !.scene = @ \ {data.object}],
                    [p EXCEPT !.voxel = data.object, !.cell = data.gridPosition])
      [] p.op = "Delete.undo" ->
           LET data == p.cmd.objectData[p.i]
           IN State([w EXCEPT !.scene = @ \cup {data.object},
                              !.vox[data.object] = [grid |-> data.gridPosition,
                                                    pos |-> data.position,
                                                    rot |-> data.rotation]],
                    [p EXCEPT !.voxel = data.object, !.cell = data.gridPosition])
      [] p.op = "Extrude.execute" ->
           LET voxel == p.cmd.createdVoxels[p.i]
           IN State([w EXCEPT !.scene = @ \cup {voxel}],
                    [p EXCEPT !.voxel = voxel, !.cell = w.vox[voxel].grid])
      [] p.op = "Extrude.undo" ->
           LET voxel == p.cmd.createdVoxels[p.i]
           IN State([w EXCEPT !.scene = @ \ {voxel}],
                    [p EXCEPT !.voxel = voxel, !.cell = w.vox[voxel].grid])

\* The statement on the registry that ends the loop body.
\*   extrude 150, intrude 216, DeleteCommand 34-36 and 51-53,
\*   ExtrudeCommand 33-35 and 44-46
RegistryStatement(w, p) ==
    LET adds == p.op \in {"extrude", "Delete.undo", "Extrude.execute"}
    IN State([w EXCEPT !.registry = IF adds THEN registerVoxel(@, p.voxel, p.cell)
                                            ELSE unregisterVoxel(@, p.cell)],
             [p EXCEPT !.voxel = 0, !.cell = <<>>, !.i = @ + 1])

\* ------------------------------------------------------ ManipulationSystem
\* constructor, and the state stopManipulation resets to.
NoManipulation ==
    [isManipulating |-> FALSE, manipulationMode |-> "null", manipulatedObjects |-> {},
     initialTransforms |-> EmptyMap, previousHandPositions |-> EmptyMap]

\* ManipulationSystem.startSingleHandManipulation
startSingleHandManipulation(w, mp, objects, pinchData) ==
    [world |-> w,
     manip |-> [mp EXCEPT
                  !.isManipulating = TRUE,
                  !.manipulationMode = "move",
                  !.manipulatedObjects = objects,
                  !.initialTransforms =
                      [o \in DOMAIN @ \cup objects |->
                          IF o \in objects
                          THEN [position |-> w.vox[o].pos, rotation |-> w.vox[o].rot]
                          ELSE @[o]],
                  !.previousHandPositions = MapSet(@, "single", pinchData.position)]]

\* ManipulationSystem.updateSingleHandManipulation
updateSingleHandManipulation(w, mp, pinchData) ==
    IF "single" \notin DOMAIN mp.previousHandPositions THEN [world |-> w, manip |-> mp]
    ELSE LET previousPos == mp.previousHandPositions["single"]
             delta == Add3(pinchData.position, Scale3(-1, previousPos))
         IN [world |-> [w EXCEPT !.vox = [o \in DOMAIN @ |->
                                            IF o \in mp.manipulatedObjects
                                            THEN [@[o] EXCEPT !.pos = Add3(@, delta)]
                                            ELSE @[o]]],
             manip |-> [mp EXCEPT !.previousHandPositions =
                                      MapSet(@, "single", pinchData.position)]]

\* ManipulationSystem.startTwoHandManipulation; angles are in quarter turns.
startTwoHandManipulation(w, mp, objects, twoHandData) ==
    [world |-> w,
     manip |-> [mp EXCEPT
                  !.isManipulating = TRUE,
                  !.manipulationMode = "rotate-scale",
                  !.manipulatedObjects = objects,
                  !.initialTransforms =
                      [o \in DOMAIN @ \cup objects |->
                          IF o \in objects
                          THEN [position |-> w.vox[o].pos, rotation |-> w.vox[o].rot]
                          ELSE @[o]],
                  !.previousHandPositions =
                      MapSet(@, "twoHand", [separation |-> twoHandData.separation,
                                            angle |-> twoHandData.angle])]]

\* ManipulationSystem.updateTwoHandManipulation: the rotation about y; the
\* hands keep their separation, so the scale factor is 1.
updateTwoHandManipulation(w, mp, twoHandData) ==
    IF "twoHand" \notin DOMAIN mp.previousHandPositions THEN [world |-> w, manip |-> mp]
    ELSE LET previousData == mp.previousHandPositions["twoHand"]
             rotationDelta == twoHandData.angle - previousData.angle
         IN [world |-> [w EXCEPT !.vox = [o \in DOMAIN @ |->
                                            IF o \in mp.manipulatedObjects
                                            THEN [@[o] EXCEPT !.rot[2] = @ + rotationDelta]
                                            ELSE @[o]]],
             manip |-> [mp EXCEPT !.previousHandPositions =
                                      MapSet(@, "twoHand",
                                             [separation |-> twoHandData.separation,
                                              angle |-> twoHandData.angle])]]

\* The transformations stopManipulation puts into 'objects-transformed'
\* (lines 201-215).
Transformations(w, mp) ==
    [o \in mp.manipulatedObjects \cap DOMAIN mp.initialTransforms |->
        [initialTransform |-> mp.initialTransforms[o],
         finalTransform |-> [position |-> w.vox[o].pos, rotation |-> w.vox[o].rot]]]

\* ManipulationSystem.stopManipulation; the events it emits.
stopManipulation(w, mp) ==
    [world |-> w, manip |-> IF mp.isManipulating THEN NoManipulation ELSE mp]

StopEvents(mp) ==
    IF mp.isManipulating
         /\ mp.manipulatedObjects \cap DOMAIN mp.initialTransforms # {}
    THEN {"objects-transformed"} ELSE NoEvents

\* ManipulationSystem.update
ManipulationUpdate(w, mp, gestureData, selectedObjects) ==
    IF selectedObjects = {} THEN stopManipulation(w, mp)
    ELSE IF gestureData.twoHandPinch.isActive
    THEN IF ~mp.isManipulating \/ mp.manipulationMode = "move"
         THEN startTwoHandManipulation(w, mp, selectedObjects, gestureData.twoHandPinch)
         ELSE updateTwoHandManipulation(w, mp, gestureData.twoHandPinch)
    ELSE IF gestureData.singlePinch.isActive
    THEN IF ~mp.isManipulating \/ mp.manipulationMode # "move"
         THEN startSingleHandManipulation(w, mp, selectedObjects, gestureData.singlePinch)
         ELSE updateSingleHandManipulation(w, mp, gestureData.singlePinch)
    ELSE IF mp.isManipulating THEN stopManipulation(w, mp)
    ELSE [world |-> w, manip |-> mp]

\* update reaches stopManipulation (lines 31-34 and 53-57).
UpdateStops(gestureData, selectedObjects) ==
    \/ selectedObjects = {}
    \/ ~gestureData.twoHandPinch.isActive /\ ~gestureData.singlePinch.isActive

\* ------------------------------------------------------------------ Init
NoResult == [op |-> "none", face |-> <<>>, distance |-> 0, success |-> FALSE,
             reason |-> "none", voxels |-> <<>>, count |-> 0]

\* EventBus.constructor: the event has no callbacks; no callback has been
\* subscribed, no emit is running and none has returned.
NoBus ==
    [listeners |-> <<>>, callbacks |-> <<>>, emits |-> <<>>, calls |-> <<>>,
     emitted |-> {}, done |-> [snapshot |-> <<>>, called |-> <<>>]]

\* ClosedFistDetector.constructor
HOLD_DURATION_MS == 200
RELEASE_DURATION_MS == 100
HISTORY_SIZE == 5
\* GrabDetector.constructor: GRAB_RADIUS = 0.2, in tenths; MIN_CONFIDENCE = 0.7,
\* in hundredths.
GRAB_RADIUS == 2
MIN_CONFIDENCE == 70

\* A time, a position that is null.
NoTime == 0 - 1

\* What a detect() returns when none has been called.
NoDetection ==
    [isFist |-> FALSE, confidence |-> 0, state |-> "none", smoothed |-> "none",
     isGrabbing |-> FALSE, justGrabbed |-> FALSE, justReleased |-> FALSE,
     near |-> FALSE]

\* GrabDetector.constructor and ClosedFistDetector.constructor.  now is
\* Date.now() of the latest call; out is what the latest detect() returned;
\* trueSince and falseSince are the times of the first call of the present run
\* of true, of false, smoothed signals; heldUntil is the time of the latest call
\* up to which the smoothed signal had been true for HOLD_DURATION_MS; released
\* counts the results with justReleased since the latest grab began.
NoDetectors ==
    [fistStartTime |-> NoTime, fistReleaseTime |-> NoTime, lastFistState |-> FALSE,
     detectionHistory |-> <<>>,
     isGrabbing |-> FALSE, grabbedObjects |-> {}, grabStartPosition |-> NoTime,
     now |-> 0, out |-> NoDetection, trueSince |-> NoTime, falseSince |-> NoTime,
     heldUntil |-> NoTime, released |-> 0]

\* A hand that is null.
NoHand == [delivery |-> 0, isPinched |-> FALSE, position |-> <<0, 0, 0>>]

\* HandCraft3DApp after initialize: no hand results yet (App.js 565-567), the
\* mode manager in its first mode (ModeManager.js 19, App.js 751); idle
\* between two tasks of the event loop.
NoApp ==
    [latestHandResults |-> 0, leftHand |-> NoHand, rightHand |-> NoHand,
     currentMode |-> "create", previousMode |-> "null", at |-> "idle", seen |-> <<>>]

InitManager ==
    /\ undoStack = <<>>
    /\ redoStack = <<>>
    /\ maxHistorySize = DefaultMaxHistorySize
    /\ isUndoing = FALSE
    /\ isRedoing = FALSE
    /\ frames = <<>>
    /\ last = Obs("init", "ok", 0, FALSE, NoEvents)
    /\ preview = NoPreview
    /\ pc = Idle
    /\ manip = NoManipulation
    /\ app = NoApp
    /\ bus = NoBus
    /\ det = NoDetectors
    /\ result = NoResult
    /\ before = EmptyWorld
    /\ pre = Stacks
    /\ rt = RtOff
    /\ run = RunEmpty
    /\ since = {}

InitHistory ==
    /\ InitManager
    /\ blocks = EmptyMap
    /\ scene = {}
    /\ registry = EmptyMap
    /\ vox = EmptyMap
    /\ maxVoxelCount = DefaultMaxVoxelCount

\* ---------------------------------------------------- commands of the caller
\* new CreateBlockCommand([block], ...) for a block just created; which of the
\* unused blocks it is makes no difference, so it is the least one.
NewCreateBlockCommands ==
    {CreateBlockCommand(b) : b \in {x \in 1..NumCmds :
        /\ x \notin BlocksInUse
        /\ \A y \in 1..(x - 1) : y \in BlocksInUse}}

\* ------------------------------------------------------------ SpecHistory
\* Calls are made by the application one after the other: a call starts only
\* when the previous one has returned.
NextHistory ==
    \/ \E c \in NewCreateBlockCommands, throws \in BOOLEAN :
         ~InProgress /\ Execute(c, throws) /\ ObserveExecute
    \/ ~InProgress /\ UndoCall /\ ObserveCall
    \/ UndoThrows /\ ObserveThrow
    \/ UndoCommandDone /\ ObserveUndoStep
    \/ UndoReturn /\ ObserveUndoReturn
    \/ ~InProgress /\ RedoCall /\ ObserveCall
    \/ RedoThrows /\ ObserveThrow
    \/ RedoCommandDone /\ ObserveRedoStep
    \/ RedoReturn /\ ObserveRedoReturn
    \/ ~InProgress /\ Clear /\ ObserveClear
    \/ \E size \in 0..MaxSize : ~InProgress /\ SetMaxHistorySize(size) /\ ObserveSetMax

SpecHistory == InitHistory /\ [][NextHistory]_vars

\* ---------------------------------------------------------- SpecReentrant
\* As SpecHistory, and the command's undo()/execute() and the handlers of the
\* events emitted by undo()/redo() may call execute(), undo() and redo().
NextReentrant ==
    \/ \E c \in NewCreateBlockCommands, throws \in BOOLEAN :
         Execute(c, throws) /\ UNCHANGED obsVars
    \/ UndoCall /\ UNCHANGED obsVars
    \/ UndoThrows /\ UNCHANGED obsVars
    \/ UndoCommandDone /\ UNCHANGED obsVars
    \/ UndoReturn /\ UNCHANGED obsVars
    \/ RedoCall /\ UNCHANGED obsVars
    \/ RedoThrows /\ UNCHANGED obsVars
    \/ RedoCommandDone /\ UNCHANGED obsVars
    \/ RedoReturn /\ UNCHANGED obsVars

SpecReentrant == InitHistory /\ [][NextReentrant]_vars

\* ------------------------------------------------ calls of the extruder
Directions == {<<1, 0, 0>>, <<-1, 0, 0>>}

Cells(maxx) == {<<x, 0, 0>> : x \in 0..maxx}

\* The part of the unbounded grid and of the heap that is explored.
WithinBounds(maxx, maxlive) ==
    /\ DOMAIN registry' \subseteq Cells(maxx)
    /\ \A v \in DOMAIN vox' : vox'[v].grid \in Cells(maxx)
    /\ Cardinality(DOMAIN vox') <= maxlive

\* extruder.extrude(faceDetector.analyzeFace(...), distance) on a voxel of the scene.
ExtrudeCall(v, dir, distance) ==
    LET faceData == Face(World, v, dir)
        r == extrude(World, faceData, distance)
    IN /\ result' = [op |-> "extrude", face |-> faceData, distance |-> distance,
                     success |-> r.success, reason |-> r.reason,
                     voxels |-> r.voxels, count |-> r.count]
       /\ last' = Obs("extrude", "ok", 0, FALSE, NoEvents)
       /\ UNCHANGED <<undoStack, redoStack, maxHistorySize, isUndoing, isRedoing,
                      frames, maxVoxelCount, preview, pc, manip, app, bus, det>>
       /\ SetWorld(r.world)

\* extruder.intrude(faceDetector.analyzeFace(...), distance) on a voxel of the scene.
IntrudeCall(v, dir, distance) ==
    LET faceData == Face(World, v, dir)
        r == intrude(World, faceData, distance)
    IN /\ result' = [op |-> "intrude", face |-> faceData, distance |-> distance,
                     success |-> r.success, reason |-> r.reason,
                     voxels |-> r.voxels, count |-> r.count]
       /\ last' = Obs("intrude", "ok", 0, FALSE, NoEvents)
       /\ UNCHANGED <<undoStack, redoStack, maxHistorySize, isUndoing, isRedoing,
                      frames, maxVoxelCount, preview, pc, manip, app, bus, det>>
       /\ SetWorld(r.world)

\* The faces of a selection: one face, or two different faces.
FaceSelections ==
    LET faces == {Face(World, v, dir) : v \in scene, dir \in Directions}
    IN {<<f>> : f \in faces}
         \cup {<<p[1], p[2]>> : p \in {q \in faces \X faces : q[1] # q[2]}}

\* extruder.extrudeMultiple(faces, distance) on faces of voxels of the scene.
ExtrudeMultipleCall(faceDataArray, distance) ==
    LET r == extrudeMultiple(World, faceDataArray, distance)
    IN /\ result' = [op |-> "extrudeMultiple", face |-> faceDataArray,
                     distance |-> distance, success |-> r.success,
                     reason |-> r.reason, voxels |-> r.voxels, count |-> r.count]
       /\ last' = Obs("extrudeMultiple", "ok", 0, FALSE, NoEvents)
       /\ UNCHANGED <<undoStack, redoStack, maxHistorySize, isUndoing, isRedoing,
                      frames, maxVoxelCount, preview, pc, manip, app, bus, det>>
       /\ SetWorld(r.world)

\* ------------------------------------------------------------ SpecExtrude
\* One call of extrude or intrude, made in any state of the registry that
\* earlier calls can have left: voxels created by createVoxel, in the scene
\* and registered, in any non-empty set of cells, at most maxVoxelCount of them.
RECURSIVE PlaceVoxels(_, _, _)
PlaceVoxels(w, maxx, x) ==
    IF x > maxx THEN w
    ELSE IF <<x, 0, 0>> \in w.occupied
    THEN LET voxel == NewObject(w)
         IN PlaceVoxels([w EXCEPT !.vox = MapSet(@, voxel, createVoxel(<<x, 0, 0>>)),
                                  !.scene = @ \cup {voxel},
                                  !.registry = registerVoxel(@, voxel, <<x, 0, 0>>)],
                        maxx, x + 1)
    ELSE PlaceVoxels(w, maxx, x + 1)

InitExtrude ==
    /\ InitManager
    /\ blocks = EmptyMap
    /\ maxVoxelCount \in {SmallVoxelCount, DefaultMaxVoxelCount}
    /\ \E occupied \in (SUBSET Cells(MaxX)) \ {{}} :
         /\ Cardinality(occupied) <= maxVoxelCount
         /\ LET w == PlaceVoxels([scene |-> {}, blocks |-> EmptyMap,
                                  registry |-> EmptyMap, vox |-> EmptyMap,
                                  occupied |-> occupied], MaxX, 0)
            IN scene = w.scene /\ registry = w.registry /\ vox = w.vox

NextExtrude ==
    \/ \E v \in scene, dir \in Directions, distance \in (-MaxDistance)..MaxDistance :
         /\ result.op = "none"
         /\ ExtrudeCall(v, dir, distance)
         /\ DOMAIN registry' \subseteq Cells(MaxX)
         /\ before' = World
         /\ UNCHANGED <<pre, rt, run, since>>
    \/ \E v \in scene, dir \in Directions, distance \in 0..MaxDistance :
         /\ result.op = "none"
         /\ IntrudeCall(v, dir, distance)
         /\ before' = World
         /\ UNCHANGED <<pre, rt, run, since>>
    \/ \E faceDataArray \in FaceSelections, distance \in (-MaxMultiple)..MaxMultiple :
         /\ result.op = "none"
         /\ ExtrudeMultipleCall(faceDataArray, distance)
         /\ DOMAIN registry' \subseteq Cells(MaxX)
         /\ before' = World
         /\ UNCHANGED <<pre, rt, run, since>>

SpecExtrude == InitExtrude /\ [][NextExtrude]_vars

\* -------------------------------------------------------------- SpecVoxel
\* The selection handed to a command: one object of the scene, or two.
Singles == {<<a>> : a \in scene}

Selections ==
    Singles \cup {<<p[1], p[2]>> : p \in {q \in scene \X scene : q[1] # q[2]}}

\* The selection translated by delta cells along x.
Translated(objects, delta) ==
    [i \in 1..Len(objects) |-> Add3(vox[objects[i]].pos, <<delta * voxelSize, 0, 0>>)]

\* No voxel outside the selection is in the way.
TargetsFree(objects, toPositions) ==
    \A i \in 1..Len(objects) :
        LET g == worldToGrid(toPositions[i])
        IN isOccupied(registry, g) => registry[g] \in SeqToSet(objects)

DeleteCommands == {DeleteCommand(World, objects) : objects \in Selections}

MoveCommands ==
    {MoveCommand(objects, [i \in 1..Len(objects) |-> vox[objects[i]].pos],
                 Translated(objects, delta)) :
       objects \in Selections, delta \in {-1, 1}}

\* A quarter turn about 'y'.
RotateCommands == {RotateCommand(World, objects, 2, 1) : objects \in Selections}

\* new ExtrudeCommand(result.voxels, ...) right after a successful extrude.
ExtrudeCommands ==
    IF result.op = "extrude" /\ result.success /\ result.count > 0
    THEN {ExtrudeCommand(result.voxels)}
    ELSE {}

NewVoxelCommands ==
    DeleteCommands
      \cup {c \in MoveCommands : TargetsFree(c.objects, c.toPositions)}
      \cup RotateCommands
      \cup ExtrudeCommands

\* One voxel, created by createVoxel and registered, at a cell of the grid.
InitVoxel ==
    /\ InitManager
    /\ blocks = EmptyMap
    /\ maxVoxelCount = DefaultMaxVoxelCount
    /\ \E g \in Cells(MaxCell) :
         /\ vox = MapSet(EmptyMap, 1, createVoxel(g))
         /\ scene = {1}
         /\ registry = registerVoxel(EmptyMap, 1, g)

\* The caller keeps the result of extrude / intrude until its next call.
ResultDropped ==
    result' = NoResult /\ before' = EmptyWorld /\ UNCHANGED <<pre, rt, run, since>>

\* An undo() that directly follows the execute() of its command keeps the
\* world observed when that execute() began.
UndoObserved ==
    /\ result' = NoResult
    /\ before' = IF last.op = "execute" /\ last.outcome = "ok" THEN before ELSE EmptyWorld
    /\ UNCHANGED <<pre, rt, run, since>>

NextVoxel ==
    \/ \E v \in scene, dir \in Directions, distance \in {-1, 1, 2} :
         /\ ~InProgress
         /\ ExtrudeCall(v, dir, distance)
         /\ WithinBounds(MaxCell, MaxLive)
         /\ UNCHANGED <<before, pre, rt, run, since>>
    \/ \E v \in scene, dir \in Directions, distance \in 1..2 :
         /\ ~InProgress
         /\ IntrudeCall(v, dir, distance)
         /\ UNCHANGED <<before, pre, rt, run, since>>
    \/ \E c \in NewVoxelCommands :
         /\ ~InProgress
         /\ Len(undoStack) < MaxStack
         /\ Execute(c, FALSE)
         /\ WithinBounds(MaxCell, MaxLive)
         /\ result' = NoResult
         /\ before' = World
         /\ UNCHANGED <<pre, rt, run, since>>
    \/ ~InProgress /\ UndoCall /\ UndoObserved
    \/ UndoCommandDone /\ UNCHANGED obsVars
    \/ UndoReturn /\ UNCHANGED obsVars
    \/ ~InProgress /\ RedoCall /\ ResultDropped
    \/ RedoCommandDone /\ UNCHANGED obsVars
    \/ RedoReturn /\ UNCHANGED obsVars

SpecVoxel == InitVoxel /\ [][NextVoxel]_vars

\* ------------------------------------------------------------ SpecPreview
\* Previews of the three systems are created, updated and discarded between
\* committed extrusions and finalized volumes.  Blocks are created at cells
\* x <= 0.  The runs explored show the preview of one system at a time.
Voxels == scene \cap DOMAIN vox

VoxelSelections ==
    {<<a>> : a \in Voxels}
      \cup {<<p[1], p[2]>> : p \in {q \in Voxels \X Voxels : q[1] # q[2]}}

\* A hand position on the x axis, in halves.
HandPositions == {<<x, 0, 0>> : x \in (-(gridSize * MaxBlockCell))..0}

\* Drag offsets of a ghost preview, in halves.
GhostOffsets == {<<2, 0, 0>>, <<voxelSize, 0, 0>>}

\* The call returns state s.
PreviewStep(op, s) ==
    /\ preview' = s.preview
    /\ last' = Obs(op, "ok", 0, FALSE, NoEvents)
    /\ before' = World
    /\ UNCHANGED <<undoStack, redoStack, maxHistorySize, isUndoing, isRedoing,
                   frames, maxVoxelCount, pc, manip, app, bus, det>>
    /\ UNCHANGED <<result, pre, rt, run, since>>
    /\ SetWorld(s.world)

\* No preview of the extruder, of the ghost preview, of the block system is showing.
ExtruderIdle == preview.extrusionPreview = <<>> /\ ~preview.isExtruding

GhostIdle == ~preview.isActive

VolumeIdle == ~preview.isCreating /\ preview.previewBlocks = <<>>

\* One voxel, created by createVoxel and registered, with a free cell on either side.
InitPreview ==
    /\ InitManager
    /\ blocks = EmptyMap
    /\ maxVoxelCount = DefaultMaxVoxelCount
    /\ vox = MapSet(EmptyMap, 1, createVoxel(<<1, 0, 0>>))
    /\ scene = {1}
    /\ registry = registerVoxel(EmptyMap, 1, <<1, 0, 0>>)

NextPreview ==
    \/ \E v \in Voxels, dir \in Directions, distance \in (-MaxPreview)..MaxPreview :
         /\ GhostIdle /\ VolumeIdle
         /\ PreviewStep("createPreview", createPreview(World, preview, Face(World, v, dir), distance))
    \/ PreviewStep("clearPreview", clearPreview(World, preview))
    \/ \E objects \in VoxelSelections :
         /\ ExtruderIdle /\ VolumeIdle
         /\ PreviewStep("GhostPreview.create", GhostCreate(World, preview, objects))
    \/ \E offset \in GhostOffsets, snap \in BOOLEAN :
         /\ ExtruderIdle /\ VolumeIdle
         /\ PreviewStep("updatePositions", updatePositions(World, preview, offset, snap))
    \/ PreviewStep("GhostPreview.clear", GhostClear(World, preview))
    \/ \E l \in HandPositions, r \in HandPositions :
         /\ ExtruderIdle /\ GhostIdle
         /\ ~preview.isCreating
         /\ PreviewStep("startVolume",
                        startVolume(World, preview, [leftPosition |-> l, rightPosition |-> r]))
    \/ \E r \in HandPositions :
         /\ ExtruderIdle /\ GhostIdle
         /\ preview.isCreating
         /\ PreviewStep("updateVolume", updateVolume(World, preview, [rightPosition |-> r]))
    \/ /\ preview.isCreating
       /\ PreviewStep("updateVolumePreview", updateVolumePreview(World, preview))
    \/ PreviewStep("GridBlockSystem.clearPreview", ClearVolumePreview(World, preview))
    \/ /\ preview.isCreating
       /\ PreviewStep("finalizeVolume", finalizeVolume(World, preview))
    \/ \E v \in Voxels, dir \in Directions, distance \in 1..MaxPreview :
         /\ ExtrudeCall(v, dir, distance)
         /\ WithinBounds(MaxCell, MaxLive)
         /\ before' = World
         /\ UNCHANGED <<pre, rt, run, since>>

SpecPreview == InitPreview /\ [][NextPreview]_vars

\* -------------------------------------------------------------- SpecOrder
\* One operation at a time, observed between its statements.
OrderStep(s) ==
    /\ scene' = s.world.scene
    /\ registry' = s.world.registry
    /\ vox' = s.world.vox
    /\ pc' = s.preview
    /\ UNCHANGED <<histVars, blocks, maxVoxelCount, preview, manip, app, bus, det>>
    /\ UNCHANGED <<result, pre, rt, run, since>>

\* A call: the loop starts at index first.
OrderCall(op, face, distance, cmd, first) ==
    /\ pc.op = "idle"
    /\ before' = World
    /\ OrderStep(State(World, [pc EXCEPT !.op = op, !.face = face, !.distance = distance,
                                          !.cmd = cmd, !.i = first]))

\* The cells an extrusion can reach and the objects it can create are explored.
ExtrusionExplored(faceData, distance) ==
    /\ \A i \in 1..Abs(distance) :
          Add3(faceData.gridPosition,
               Scale3(IF distance > 0 THEN i ELSE -i, faceData.direction)) \in Cells(MaxCell)
    /\ Cardinality(DOMAIN vox) + Abs(distance) <= MaxLive + 1

NextOrder ==
    \/ \E v \in scene, dir \in Directions, distance \in {-1, 1, 2} :
         /\ ExtrusionExplored(Face(World, v, dir), distance)
         /\ OrderCall("extrude", Face(World, v, dir), distance, NoCommand, 1)
    \/ \E v \in scene, dir \in Directions, distance \in 1..2 :
         OrderCall("intrude", Face(World, v, dir), distance, NoCommand, 0)
    \/ \E c \in DeleteCommands : OrderCall("Delete.execute", <<>>, 0, c, 1)
    \/ /\ pc.kept.type = "Delete" /\ pc.done
       /\ OrderCall("Delete.undo", <<>>, 0, pc.kept, 1)
    \/ /\ pc.kept.type = "Extrude" /\ pc.done
       /\ OrderCall("Extrude.undo", <<>>, 0, pc.kept, 1)
    \/ /\ pc.kept.type = "Extrude" /\ ~pc.done
       /\ OrderCall("Extrude.execute", <<>>, 0, pc.kept, 1)
    \/ /\ pc.op # "idle" /\ pc.voxel = 0 /\ ~LoopDone(pc)
       /\ OrderStep(SceneStatement(World, pc))
       /\ UNCHANGED before
    \/ /\ pc.op # "idle" /\ pc.voxel # 0
       /\ OrderStep(RegistryStatement(World, pc))
       /\ UNCHANGED before
    \/ \E record \in BOOLEAN :
         /\ pc.op # "idle" /\ pc.voxel = 0 /\ LoopDone(pc)
         /\ record \/ (pc.op = "extrude" /\ Len(pc.voxels) > 0)
         /\ OrderStep(State(World, Return(pc, record)))
         /\ UNCHANGED before

SpecOrder == InitVoxel /\ [][NextOrder]_vars

\* -------------------------------------------------------------- SpecManip
\* Voxels are extruded, moved and rotated through the undo manager, and
\* dragged with one hand, one voxel at a time, the pinch starting at the origin.
PinchPositions == {<<0, 0, 0>>, <<MaxDrag, 0, 0>>}

\* The explored drags carry an object at most MaxDrag halves away from the
\* centre of its cell.
PositionsExplored ==
    \A v \in DOMAIN vox' :
        Abs(vox'[v].pos[1] - gridToWorld(vox'[v].grid)[1]) <= MaxDrag

ManipStep(op, s, ev) ==
    /\ manip' = s.manip
    /\ last' = Obs(op, "ok", 0, FALSE, ev)
    /\ UNCHANGED <<undoStack, redoStack, maxHistorySize, isUndoing, isRedoing,
                   frames, maxVoxelCount, preview, pc, app, bus, det>>
    /\ UNCHANGED obsVars
    /\ SetWorld(s.world)

\* ManipulationSystem.update with a single pinch, lines 45-51 and 53-57.
NextManip ==
    \/ \E v \in scene, dir \in Directions, distance \in {-1, 1} :
         /\ ~InProgress
         /\ ExtrudeCall(v, dir, distance)
         /\ WithinBounds(MaxCell, MaxLive)
         /\ UNCHANGED <<before, pre, rt, run, since>>
    \/ \E c \in {m \in MoveCommands \cup RotateCommands : Len(m.objects) = 1
                                          /\ (m.type = "Move" => TargetsFree(m.objects, m.toPositions))} :
         /\ ~InProgress
         /\ ~manip.isManipulating
         /\ Len(undoStack) < MaxStack
         /\ Execute(c, FALSE)
         /\ WithinBounds(MaxCell, MaxLive)
         /\ ResultDropped
    \/ ~InProgress /\ UndoCall /\ ResultDropped
    \/ UndoCommandDone /\ UNCHANGED obsVars
    \/ UndoReturn /\ UNCHANGED obsVars
    \/ \E v \in scene, p \in {<<0, 0, 0>>} :
         /\ ~manip.isManipulating \/ manip.manipulationMode # "move"
         /\ ManipStep("startSingleHandManipulation",
                      startSingleHandManipulation(World, manip, {v}, [position |-> p]),
                      NoEvents)
    \/ \E p \in PinchPositions :
         /\ manip.isManipulating /\ manip.manipulationMode = "move"
         /\ ManipStep("updateSingleHandManipulation",
                      updateSingleHandManipulation(World, manip, [position |-> p]),
                      NoEvents)
         /\ PositionsExplored
    \/ /\ manip.isManipulating
       /\ ManipStep("stopManipulation", stopManipulation(World, manip), StopEvents(manip))

SpecManip == InitPreview /\ [][NextManip]_vars

\* ---------------------------------------------------------- HandCraft3DApp
\* A hand of a result stands for its landmarks: the delivery that brought it,
\* whether thumb and index tips are within the pinch threshold, and the world
\* position mediaPipeToWorld gives for its pinch centre.
Hand(delivery, h) ==
    IF h.present
    THEN [delivery |-> delivery, isPinched |-> h.isPinched, position |-> h.position]
    ELSE NoHand

\* GestureRecognizer.detectPinch
detectPinch(landmarks) ==
    [isPinched |-> landmarks.isPinched, position |-> landmarks.position]

\* A two-hand pinch that is null.
NoPinch == [present |-> FALSE, isActive |-> FALSE,
            leftPosition |-> <<0, 0, 0>>, rightPosition |-> <<0, 0, 0>>]

\* { isActive: false }
InactivePinch == [NoPinch EXCEPT !.present = TRUE]

\* The two-hand gesture of two pinches, as GestureRecognizer.detectTwoHandPinch
\* computes it: active when both hands pinch.
computeTwoHandGesture(leftPinch, rightPinch) ==
    IF leftPinch.isPinched /\ rightPinch.isPinched
    THEN [present |-> TRUE, isActive |-> TRUE,
          leftPosition |-> leftPinch.position, rightPosition |-> rightPinch.position]
    ELSE InactivePinch

\* GridBlockSystem.update
GridBlockUpdate(w, pv, gestureData) ==
    IF ~gestureData.twoHandPinch.present
    THEN IF pv.isCreating THEN finalizeVolume(w, pv) ELSE State(w, pv)
    ELSE IF gestureData.twoHandPinch.isActive
         THEN IF ~pv.isCreating
              THEN startVolume(w, pv, gestureData.twoHandPinch)
              ELSE updateVolume(w, pv, gestureData.twoHandPinch)
         ELSE State(w, pv)

\* What GridBlockSystem.update emits: finalizeVolume, line 555.
GridBlockEvents(pv, gestureData) ==
    IF ~gestureData.twoHandPinch.present /\ pv.isCreating /\ Len(pv.previewBlocks) > 0
    THEN {"blocks-created"} ELSE NoEvents

\* What a statement of processHandData reads of the hands.
Read(by, a) ==
    [by |-> by, leftHand |-> a.leftHand, rightHand |-> a.rightHand,
     results |-> a.latestHandResults]

\* HandCraft3DApp.onHandsDetected, lines 699-715: results number delivery.
StoreResults(a, delivery, results) ==
    [a EXCEPT !.latestHandResults = delivery,
              !.leftHand = IF results.hasHands THEN Hand(delivery, results.left) ELSE @,
              !.rightHand = IF results.hasHands THEN Hand(delivery, results.right) ELSE @]

\* processHandData, lines 875-884: the two-hand gesture of the pinches that
\* lines 855-873 detected.
TwoHandPinchOf(seen) ==
    LET leftHand == seen[1].leftHand
        rightHand == seen[2].rightHand
    IN IF leftHand # NoHand /\ rightHand # NoHand
       THEN computeTwoHandGesture(detectPinch(leftHand), detectPinch(rightHand))
       ELSE InactivePinch

\* ModeManager.modes
Modes == {"create", "select", "extrude", "delete", "csg"}

\* Object.values(this.modes), in the order of the literal.
ModeList == <<"create", "select", "extrude", "delete", "csg">>

\* modeList.indexOf(mode)
IndexOfMode(mode) == CHOOSE i \in 1..Len(ModeList) : ModeList[i] = mode

\* Faulty variant of setMode: no early return when the mode is the current one.
ModeAfterWithoutSameCheck(a, mode) ==
    IF mode \notin Modes
    THEN a
    ELSE [a EXCEPT !.previousMode = a.currentMode, !.currentMode = mode]

\* ModeManager.setMode: the manager after the call.
ModeAfter(a, mode) ==
    IF mode \notin Modes
    THEN a
    ELSE IF a.currentMode = mode
         THEN a
         ELSE [a EXCEPT !.previousMode = a.currentMode, !.currentMode = mode]

\* ModeManager.setMode: the events of the call, emitted when the fields were
\* assigned (lines 40-50).
ModeEvents(a, mode) ==
    IF mode \notin Modes \/ a.currentMode = mode
    THEN NoEvents
    ELSE {"mode-changed"}

\* ModeManager.nextMode: the argument it passes to setMode; the index is
\* 0-based in the code, 1-based here.
NextModeOf(a) == ModeList[(IndexOfMode(a.currentMode) % Len(ModeList)) + 1]

\* ---------------------------------------------------------------- SpecTick
\* The tasks of the event loop: a delivery of hand-tracking results, a frame
\* of the render loop, a click on a mode button, and a call of
\* GridBlockSystem.update by another caller.  A task starts when the one
\* before it has returned.
TickPositions == {<<-(gridSize * MaxBlockCell), 0, 0>>, <<0, 0, 0>>}

\* A hand of a result: absent, or shown at a position, pinching or not.
TickHands(position) ==
    {[present |-> FALSE, isPinched |-> FALSE, position |-> <<0, 0, 0>>]}
      \cup [present : {TRUE}, isPinched : BOOLEAN, position : {position}]

\* The left hand is shown at the far cell, the right hand at the origin.
HandResults ==
    [hasHands : BOOLEAN, left : TickHands(<<-(gridSize * MaxBlockCell), 0, 0>>),
     right : TickHands(<<0, 0, 0>>)]

TwoHandPinches ==
    {NoPinch, InactivePinch}
      \cup [present : {TRUE}, isActive : {TRUE},
            leftPosition : TickPositions, rightPosition : TickPositions]

TickStep(op, s, a, ev) ==
    /\ preview' = s.preview
    /\ app' = a
    /\ last' = Obs(op, "ok", 0, FALSE, ev)
    /\ before' = World
    /\ UNCHANGED <<undoStack, redoStack, maxHistorySize, isUndoing, isRedoing,
                   frames, maxVoxelCount, pc, manip, bus, det>>
    /\ UNCHANGED <<result, pre, rt, run, since>>
    /\ SetWorld(s.world)

\* Faulty variant: a delivery runs in the middle of a frame.
onHandsDetectedPreempting(results) ==
    /\ app.latestHandResults < MaxDelivery
    /\ TickStep("onHandsDetected", State(World, preview),
                StoreResults(app, app.latestHandResults + 1, results), NoEvents)

\* HandCraft3DApp.onHandsDetected, called by HandTracker (lines 45-47) when
\* hands.send resolves.
onHandsDetected(results) ==
    /\ app.at = "idle"
    /\ app.latestHandResults < MaxDelivery
    /\ TickStep("onHandsDetected", State(World, preview),
                StoreResults(app, app.latestHandResults + 1, results), NoEvents)

\* HandCraft3DApp.update and processHandData up to line 854.
TickBegin ==
    /\ app.at = "idle"
    /\ TickStep("update", State(World, preview),
                IF app.latestHandResults = 0 \/ (app.leftHand = NoHand /\ app.rightHand = NoHand)
                THEN app
                ELSE [app EXCEPT !.at = "left"], NoEvents)

\* processHandData, lines 855-863: the pinch of the left hand.
TickLeft ==
    /\ app.at = "left"
    /\ TickStep("detectPinch", State(World, preview),
                [app EXCEPT !.at = "right", !.seen = Append(@, Read("left", app))], NoEvents)

\* processHandData, lines 865-873: the pinch of the right hand.
TickRight ==
    /\ app.at = "right"
    /\ TickStep("detectPinch", State(World, preview),
                [app EXCEPT !.at = "route", !.seen = Append(@, Read("right", app))], NoEvents)

\* processHandData, lines 875-928: the two-hand gesture and the switch on
\* modeManager.currentMode, whose cases are 'CREATE', 'SELECT', 'DELETE', 'MOVE'
\* and 'EXTRUDE'; the systems of the last four are updated with the same
\* this.leftHand and this.rightHand (lines 904-926).
TickRoute ==
    /\ app.at = "route"
    /\ LET gestureData == [leftHand |-> app.leftHand, rightHand |-> app.rightHand,
                           twoHandPinch |-> TwoHandPinchOf(app.seen)]
           done == [app EXCEPT !.at = "idle", !.seen = <<>>]
       IN IF app.currentMode = "CREATE"
          THEN TickStep("processHandData", GridBlockUpdate(World, preview, gestureData),
                        done, GridBlockEvents(preview, gestureData))
          ELSE TickStep("processHandData", State(World, preview), done, NoEvents)

\* ModeManager.setMode, on 'mode-change-requested' (App.js 762-764).
setMode(mode) ==
    /\ app.at = "idle"
    /\ mode \in Modes
    /\ app.currentMode # mode
    /\ TickStep("setMode", State(World, preview), ModeAfter(app, mode),
                ModeEvents(app, mode))

\* ---------------------------------------------------------------- SpecMode
\* The three operations of ModeManager called in any order, setMode also with
\* a string that is no mode.  result holds the argument of the call, the
\* manager before it, and the modes that consecutive nextMode calls went
\* through, the mode they started from first.
ModeInputs == Modes \cup {"CREATE"}

ModeStep(op, mode, trail) ==
    /\ app' = ModeAfter(app, mode)
    /\ last' = Obs(op, "ok", 0, FALSE, ModeEvents(app, mode))
    /\ result' = [op |-> op, mode |-> mode, was |-> app, trail |-> trail]
    /\ UNCHANGED <<undoStack, redoStack, maxHistorySize, isUndoing, isRedoing, frames,
                   worldVars, maxVoxelCount, preview, pc, manip, bus, det>>
    /\ UNCHANGED <<before, pre, rt, run, since>>

\* The last modes of the trail, as many as a full cycle and its start.
LastCycle(trail) ==
    IF Len(trail) > Len(ModeList) + 1 THEN Tail(trail) ELSE trail

\* ModeManager.setMode called by any caller.
callSetMode(mode) == ModeStep("setMode", mode, <<>>)

\* ModeManager.nextMode
nextMode ==
    ModeStep("nextMode", NextModeOf(app),
             IF result.op = "nextMode"
             THEN LastCycle(Append(result.trail, ModeAfter(app, NextModeOf(app)).currentMode))
             ELSE <<app.currentMode, ModeAfter(app, NextModeOf(app)).currentMode>>)

\* ModeManager.toggleMode: nothing is called while previousMode is null.
toggleMode ==
    IF app.previousMode # "null"
    THEN ModeStep("toggleMode", app.previousMode, <<>>)
    ELSE /\ last' = Obs("toggleMode", "ok", 0, FALSE, NoEvents)
         /\ result' = [op |-> "toggleMode", mode |-> "null", was |-> app, trail |-> <<>>]
         /\ UNCHANGED <<undoStack, redoStack, maxHistorySize, isUndoing, isRedoing, frames,
                        worldVars, maxVoxelCount, preview, pc, manip, app, bus, det>>
         /\ UNCHANGED <<before, pre, rt, run, since>>

NextModeManager ==
    \/ \E mode \in ModeInputs : callSetMode(mode)
    \/ nextMode
    \/ toggleMode

SpecMode == InitHistory /\ [][NextModeManager]_vars

\* GridBlockSystem.update called with gesture data of the caller's making.
CallGridBlockUpdate(gestureData) ==
    /\ app.at = "idle"
    /\ TickStep("GridBlockSystem.update", GridBlockUpdate(World, preview, gestureData),
                app, GridBlockEvents(preview, gestureData))

NextTick ==
    \/ \E results \in HandResults : onHandsDetected(results)
    \/ TickBegin
    \/ TickLeft
    \/ TickRight
    \/ TickRoute
    \/ \E mode \in Modes : setMode(mode)
    \/ \E twoHandPinch \in TwoHandPinches :
          CallGridBlockUpdate([twoHandPinch |-> twoHandPinch])

SpecTick == InitHistory /\ [][NextTick]_vars

\* The render loop (App.js 823-834) asks for the next animation frame at the
\* end of each frame, and a frame runs update and processHandData to the end:
\* a frame that can start does start, and a started frame finishes.
SpecTickFair ==
    SpecTick /\ WF_vars(TickBegin) /\ WF_vars(TickLeft) /\ WF_vars(TickRight)
             /\ WF_vars(TickRoute)

\* -------------------------------------------------------------- SpecVolume
\* Two-hand volume gestures of the block system, one after the other: the
\* volume is started, resized and finalized.  The box is a row of cells along
\* the x axis.
VolumePositions == {<<x, 0, 0>> : x \in (-(gridSize * MaxVolumeCell))..0}

\* The call returns state s; the box it worked on is kept in result.
VolumeStep(op, s) ==
    /\ preview' = s.preview
    /\ last' = Obs(op, "ok", 0, FALSE, NoEvents)
    /\ before' = World
    /\ result' = [op |-> op, startCorner |-> preview.startCorner,
                  endCorner |-> preview.endCorner]
    /\ UNCHANGED <<undoStack, redoStack, maxHistorySize, isUndoing, isRedoing,
                   frames, maxVoxelCount, pc, manip, app, bus, det>>
    /\ UNCHANGED <<pre, rt, run, since>>
    /\ SetWorld(s.world)

NextVolume ==
    \/ \E l \in VolumePositions, r \in VolumePositions :
         /\ ~preview.isCreating
         /\ VolumeStep("startVolume",
                       startVolume(World, preview, [leftPosition |-> l, rightPosition |-> r]))
    \/ \E r \in VolumePositions :
         /\ preview.isCreating
         /\ VolumeStep("updateVolume", updateVolume(World, preview, [rightPosition |-> r]))
    \/ /\ preview.isCreating
       /\ VolumeStep("finalizeVolume", finalizeVolume(World, preview))

\* The block system after construction, or with its maxBlocks field lowered.
InitVolume ==
    /\ undoStack = <<>>
    /\ redoStack = <<>>
    /\ maxHistorySize = DefaultMaxHistorySize
    /\ isUndoing = FALSE
    /\ isRedoing = FALSE
    /\ frames = <<>>
    /\ last = Obs("init", "ok", 0, FALSE, NoEvents)
    /\ \E n \in {SmallBlockCount, DefaultMaxBlocks} :
          preview = [NoPreview EXCEPT !.maxBlocks = n]
    /\ pc = Idle
    /\ manip = NoManipulation
    /\ app = NoApp
    /\ bus = NoBus
    /\ det = NoDetectors
    /\ result = NoResult
    /\ before = EmptyWorld
    /\ pre = Stacks
    /\ rt = RtOff
    /\ run = RunEmpty
    /\ since = {}
    /\ blocks = EmptyMap
    /\ scene = {}
    /\ registry = EmptyMap
    /\ vox = EmptyMap
    /\ maxVoxelCount = DefaultMaxVoxelCount

SpecVolume == InitVolume /\ [][NextVolume]_vars

\* ------------------------------------------------------------- SpecSession
\* The manipulation system is fed gesture data frame after frame: no pinch, a
\* single pinch or a two-hand pinch, with the voxel selected or not.
GestureData ==
    [twoHandPinch : [isActive : {FALSE}, separation : {1}, angle : {0}]
                      \cup [isActive : {TRUE}, separation : {1}, angle : 0..MaxTurn],
     singlePinch : [isActive : {FALSE}, position : {<<0, 0, 0>>}]
                     \cup [isActive : {TRUE}, position : PinchPositions]]

\* The explored turns.
TurnsExplored == \A v \in DOMAIN vox' : Abs(vox'[v].rot[2]) <= MaxTurn

\* before keeps the world in which the session began; result keeps the last
\* 'objects-transformed' of the session and counts the session's events.
SessionUpdate(gestureData, selectedObjects) ==
    LET s == ManipulationUpdate(World, manip, gestureData, selectedObjects)
        ev == IF UpdateStops(gestureData, selectedObjects) THEN StopEvents(manip)
              ELSE NoEvents
        begins == ~manip.isManipulating /\ s.manip.isManipulating
    IN /\ manip' = s.manip
       /\ last' = Obs("update", "ok", 0, FALSE, ev)
       /\ before' = IF begins THEN World ELSE before
       /\ result' = IF ev # NoEvents
                     THEN [op |-> "objects-transformed",
                           transformations |-> Transformations(World, manip),
                           count |-> IF result.op = "session" THEN 1 ELSE 2]
                     ELSE IF begins THEN [op |-> "session"]
                     ELSE result
       /\ UNCHANGED <<undoStack, redoStack, maxHistorySize, isUndoing, isRedoing,
                      frames, maxVoxelCount, preview, pc, app, bus, det>>
       /\ UNCHANGED <<pre, rt, run, since>>
       /\ SetWorld(s.world)
       /\ PositionsExplored
       /\ TurnsExplored

NextSession ==
    \E gestureData \in GestureData, selectedObjects \in SUBSET scene :
        SessionUpdate(gestureData, selectedObjects)

SpecSession == InitPreview /\ [][NextSession]_vars

\* ---------------------------------------------------------------- EventBus
\* One event name.  bus.listeners[id] is what the callback subscribed as number
\* id does, bus.callbacks is the array events.get(eventName) of the subscribed
\* ones (no entry in the map when it is empty), bus.calls[id] counts the calls of
\* the function handed to on() or once().
\* What a function handed to on() or once() does when called: nothing, throw,
\* unsubscribe the callback target, or, the first time it runs, emit the event.
Callbacks ==
    [does : {"nothing", "throws", "emits"}, target : {0}]
      \cup [does : {"off"}, target : 1..MaxListeners]

\* EventBus.off: splice the callback out of the array.
off(callbacks, id) == SelectSeq(callbacks, LAMBDA x : x # id)

BusStep(b) ==
    /\ bus' = b
    /\ UNCHANGED <<histVars, worldVars, maxVoxelCount, preview, pc, manip, app, det, obsVars>>

Subscribe(callback, wrapped) ==
    /\ bus.emits = <<>>
    /\ Len(bus.listeners) < MaxListeners
    /\ callback.target <= Len(bus.listeners) + 1
    /\ BusStep([bus EXCEPT
                  !.listeners = Append(@, [once |-> wrapped, does |-> callback.does,
                                           target |-> callback.target]),
                  !.callbacks = Append(@, Len(bus.listeners) + 1),
                  !.calls = Append(@, 0)])

\* EventBus.on
on(callback) == Subscribe(callback, FALSE)

\* EventBus.once: on(eventName, onceWrapper)
once(callback) == Subscribe(callback, TRUE)

\* An emit that starts: the callbacks subscribed now, the index of the array
\* iterator, the callbacks called so far.
NewEmit(b) ==
    [i |-> 1, snapshot |-> b.callbacks, called |-> <<>>, at |-> "loop", id |-> 0]

\* EventBus.emit is called by the application, lines 69-71.
EmitCall ==
    /\ bus.emits = <<>>
    /\ \A id \in 1..Len(bus.calls) : bus.calls[id] < MaxCalls
    /\ BusStep(IF bus.callbacks = <<>>
               THEN [bus EXCEPT !.done = [snapshot |-> <<>>, called |-> <<>>]]
               ELSE [bus EXCEPT !.emits = Append(@, NewEmit(bus))])

\* onceWrapper, line 36, after callback(...args) has returned.
AfterCallback(callbacks, id, listener) ==
    IF listener.once THEN off(callbacks, id) ELSE callbacks

\* One turn of the loop of emit, lines 74-80: the array iterator yields
\* callbacks[i] and the callback runs, up to the emit it makes if it makes one.
EmitStep ==
    /\ bus.emits # <<>>
    /\ LET n == Len(bus.emits)
           f == bus.emits[n]
       IN /\ f.at = "loop"
          /\ f.i <= Len(bus.callbacks)
          /\ LET id == bus.callbacks[f.i]
                 listener == bus.listeners[id]
                 called == [bus EXCEPT !.calls[id] = @ + 1,
                                       !.emits[n].called = Append(@, id),
                                       !.emits[n].i = @ + 1]
             IN BusStep(
                  IF listener.does = "throws" THEN called
                  ELSE IF listener.does = "off"
                  THEN [called EXCEPT !.callbacks =
                           AfterCallback(off(@, listener.target), id, listener)]
                  ELSE IF listener.does = "emits" /\ id \notin bus.emitted
                  THEN [called EXCEPT !.emitted = @ \cup {id},
                                      !.emits = Append([@ EXCEPT ![n].at = "callback",
                                                                 ![n].id = id],
                                                       NewEmit(bus))]
                  ELSE [called EXCEPT !.callbacks = AfterCallback(@, id, listener)])

\* The loop of emit ends: the iterator has passed the end of the array.  An
\* emit made by a callback returns into that callback, which goes on.
EmitReturn ==
    /\ bus.emits # <<>>
    /\ LET n == Len(bus.emits)
           f == bus.emits[n]
           returned == [bus EXCEPT !.emits = SubSeq(@, 1, n - 1),
                                   !.done = [snapshot |-> f.snapshot, called |-> f.called]]
       IN /\ f.at = "loop"
          /\ f.i > Len(bus.callbacks)
          /\ BusStep(IF n = 1 THEN returned
                     ELSE [returned EXCEPT
                             !.emits[n - 1].at = "loop",
                             !.callbacks = AfterCallback(@, bus.emits[n - 1].id,
                                                         bus.listeners[bus.emits[n - 1].id])])

NextBus ==
    \/ \E callback \in Callbacks : on(callback)
    \/ \E callback \in Callbacks : once(callback)
    \/ EmitCall
    \/ EmitStep
    \/ EmitReturn

SpecBus == InitHistory /\ [][NextBus]_vars

\* ------------------------------------------------------ ClosedFistDetector
\* detectGeometric is a function of the landmarks alone; a call is given what
\* it returns for them: isFist and the confidence, in hundredths.
Landmarks ==
    [valid : {FALSE}, isFist : {FALSE}, confidence : {0}]
      \cup [valid : {TRUE}, isFist : BOOLEAN, confidence : {60, 100}]

\* ClosedFistDetector.detect, lines 61-68: the history and the majority vote.
PushHistory(history, isFist) ==
    LET pushed == Append(history, isFist)
    IN IF Len(pushed) > HISTORY_SIZE THEN Tail(pushed) ELSE pushed

smoothedFist(history) ==
    2 * Cardinality({k \in 1..Len(history) : history[k]}) > Len(history)

\* ClosedFistDetector.applyTemporalFilter at time now: the detector and the
\* result.
applyTemporalFilter(d, currentFist, confidence, now) ==
    IF currentFist
    THEN LET fistStartTime == IF ~d.lastFistState THEN now ELSE d.fistStartTime
             holdDuration == now - (IF fistStartTime = NoTime THEN now ELSE fistStartTime)
             isFistConfirmed == holdDuration >= HOLD_DURATION_MS
         IN [d EXCEPT !.fistStartTime = fistStartTime,
                      !.fistReleaseTime = IF ~d.lastFistState THEN NoTime ELSE @,
                      !.lastFistState = TRUE,
                      !.out = [NoDetection EXCEPT
                                 !.isFist = isFistConfirmed,
                                 !.confidence = confidence,
                                 !.state = IF isFistConfirmed THEN "confirmed"
                                           ELSE "detecting"]]
    ELSE LET fistReleaseTime == IF d.lastFistState THEN now ELSE d.fistReleaseTime
         IN IF fistReleaseTime # NoTime /\ now - fistReleaseTime < RELEASE_DURATION_MS
            THEN [d EXCEPT !.fistReleaseTime = fistReleaseTime,
                           !.out = [NoDetection EXCEPT !.isFist = TRUE,
                                                       !.confidence = confidence \div 2,
                                                       !.state = "releasing"]]
            ELSE [d EXCEPT !.fistReleaseTime = fistReleaseTime,
                           !.lastFistState = FALSE,
                           !.fistStartTime = NoTime,
                           !.out = [NoDetection EXCEPT !.state = "open"]]

\* ClosedFistDetector.detect at time now.
FistDetect(d, landmarks, now) ==
    IF ~landmarks.valid
    THEN [d EXCEPT !.now = now, !.out = [NoDetection EXCEPT !.state = "invalid"]]
    ELSE LET history == PushHistory(d.detectionHistory, landmarks.isFist)
             smoothed == smoothedFist(history)
             filtered == applyTemporalFilter([d EXCEPT !.detectionHistory = history],
                                             smoothed, landmarks.confidence, now)
         IN [filtered EXCEPT
               !.now = now,
               !.out.smoothed = IF smoothed THEN "true" ELSE "false",
               !.trueSince = IF ~smoothed THEN NoTime
                             ELSE IF @ = NoTime THEN now ELSE @,
               !.heldUntil = IF smoothed /\ d.trueSince # NoTime
                                  /\ now - d.trueSince >= HOLD_DURATION_MS
                             THEN now ELSE @,
               !.falseSince = IF smoothed THEN NoTime
                              ELSE IF @ = NoTime THEN now ELSE @]

DetStep(d) ==
    /\ det' = d
    /\ UNCHANGED <<histVars, worldVars, maxVoxelCount, preview, pc, manip, app, bus, obsVars>>

\* The time between two calls, in ms.
Delays == {50, 100}

\* ClosedFistDetector.reset
FistReset ==
    DetStep([det EXCEPT !.fistStartTime = NoTime, !.fistReleaseTime = NoTime,
                        !.lastFistState = FALSE, !.detectionHistory = <<>>,
                        !.trueSince = NoTime, !.falseSince = NoTime,
                        !.heldUntil = NoTime, !.out = NoDetection])

NextFist ==
    \/ \E landmarks \in Landmarks, dt \in Delays :
          /\ det.now + dt <= MaxTime
          /\ DetStep(FistDetect(det, landmarks, det.now + dt))
    \/ det.out # NoDetection /\ FistReset

SpecFist == InitHistory /\ [][NextFist]_vars

\* ------------------------------------------------------------ GrabDetector
\* The hand and the objects are on the x axis, positions in tenths; the
\* selectable object is at the origin.
ObjectPosition(object) == 0

\* GrabDetector.findNearestObject: the distance of the nearest object.
NearestDistance(handWorldPosition, selectedObjects) ==
    CHOOSE dist \in {Abs(handWorldPosition - ObjectPosition(o)) : o \in selectedObjects} :
        \A o \in selectedObjects : dist <= Abs(handWorldPosition - ObjectPosition(o))

\* GrabDetector.startGrab
startGrab(d, handPosition, objects) ==
    [d EXCEPT !.isGrabbing = TRUE, !.grabbedObjects = objects,
              !.grabStartPosition = handPosition,
              !.released = 0,
              !.out.isGrabbing = TRUE, !.out.justGrabbed = TRUE, !.out.near = TRUE]

\* GrabDetector.releaseGrab
releaseGrab(d) ==
    IF ~d.isGrabbing THEN d
    ELSE [d EXCEPT !.isGrabbing = FALSE, !.grabbedObjects = {},
                   !.grabStartPosition = NoTime,
                   !.released = @ + 1,
                   !.out.justReleased = TRUE]

\* GrabDetector.detect at time now; out keeps isFist, confidence and state of
\* the fist result next to the fields of the grab result.
GrabDetect(d, landmarks, handWorldPosition, selectedObjects, now) ==
    LET f == FistDetect(d, landmarks, now)
        fistResult == f.out
    IN IF ~fistResult.isFist \/ fistResult.confidence < MIN_CONFIDENCE
       THEN IF f.isGrabbing THEN releaseGrab(f) ELSE f
       ELSE IF selectedObjects # {}
                 /\ NearestDistance(handWorldPosition, selectedObjects) <= GRAB_RADIUS
       THEN IF ~f.isGrabbing THEN startGrab(f, handWorldPosition, selectedObjects)
            ELSE [f EXCEPT !.out.isGrabbing = TRUE, !.out.near = TRUE]
       ELSE f

\* The hand next to the object, or away from it.
HandWorldPositions == {GRAB_RADIUS - 1, GRAB_RADIUS + 1}

NextGrab ==
    \E landmarks \in Landmarks, dt \in Delays, handWorldPosition \in HandWorldPositions,
       selectedObjects \in SUBSET {1} :
        /\ det.now + dt <= MaxTime
        /\ DetStep(GrabDetect(det, landmarks, handWorldPosition, selectedObjects,
                              det.now + dt))

SpecGrab == InitHistory /\ [][NextGrab]_vars

\* -------------------------------------------------------------- SpecBlocks
\* Volumes are created with the block system, blocks are deleted with
\* deleteBlock and with the selection system, and the commands that the
\* handlers of 'blocks-created' and 'objects-deleted' record (App.js 677-685)
\* are undone and redone.  A block is a new object: the runs explored rebuild
\* a cell when no command refers to the block that stood there.

\* The call returns state s and emits an event whose handler executes command c.
BlockStep(op, s, c) ==
    /\ UNCHANGED <<maxHistorySize, isUndoing, isRedoing, frames, maxVoxelCount, pc, manip, app, bus, det>>
    /\ preview' = s.preview
    /\ IF c.type = "none"
       THEN /\ UNCHANGED <<undoStack, redoStack>>
            /\ SetWorld(s.world)
            /\ last' = Obs(op, "ok", 0, FALSE, NoEvents)
       ELSE /\ undoStack' = PushLimited(undoStack, c, maxHistorySize)
            /\ redoStack' = <<>>
            /\ SetWorld(CommandExecute(s.world, c))
            /\ last' = Obs(op, "ok", c, FALSE, {"command-executed", "undo-status-changed"})
    /\ UNCHANGED obsVars

\* The blocks finalizeVolume creates from the preview.
CreatedBlocks(pv) == [i \in 1..Len(pv.previewBlocks) |-> BlockAt(pv.previewBlocks[i])]

\* Sequences without repetition of the blocks in the scene.
BlockSelections ==
    {<<a>> : a \in scene}
      \cup {<<p[1], p[2]>> : p \in {q \in scene \X scene : q[1] # q[2]}}

NextBlocks ==
    \/ \E l \in HandPositions, r \in HandPositions :
         /\ ~InProgress /\ ~preview.isCreating
         /\ BlockStep("startVolume",
                      startVolume(World, preview, [leftPosition |-> l, rightPosition |-> r]),
                      NoCommand)
    \/ /\ ~InProgress /\ preview.isCreating
       /\ \A i \in 1..Len(preview.previewBlocks) :
             BlockAt(preview.previewBlocks[i]) \notin BlocksInUse
       /\ Len(undoStack) < MaxStack + 1
       /\ BlockStep("finalizeVolume", finalizeVolume(World, preview),
                    IF Len(preview.previewBlocks) = 0 THEN NoCommand
                    ELSE [type |-> "CreateBlock", blocks |-> CreatedBlocks(preview)])
    \/ \E p \in HandPositions :
         /\ ~InProgress
         /\ BlockStep("deleteBlock", State(deleteBlock(World, BlockSnapToGrid(p)), preview),
                      NoCommand)
    \/ \E objects \in BlockSelections :
         /\ ~InProgress
         /\ Len(undoStack) < MaxStack + 1
         /\ BlockStep("deleteSelected", State(deleteSelected(World, objects), preview),
                      DeleteObjectsCommand(objects))
    \/ ~InProgress /\ UndoCall /\ UNCHANGED obsVars
    \/ UndoCommandDone /\ UNCHANGED obsVars
    \/ UndoReturn /\ UNCHANGED obsVars
    \/ ~InProgress /\ RedoCall /\ UNCHANGED obsVars
    \/ RedoCommandDone /\ UNCHANGED obsVars
    \/ RedoReturn /\ UNCHANGED obsVars

SpecBlocks == InitHistory /\ [][NextBlocks]_vars

\* --------------------------------------------------------------- SpecSnap
\* Calls of VoxelGridSystem.snapToGrid and worldToGrid on world positions
\* whose coordinates are multiples of one half, and of getLinePositions on
\* grid cells, and of FaceDetector.snapToCardinalDirection on face normals.
\* The functions are pure: a behaviour is one call, its outcome kept in result.
Normals == {<<x, y, z>> : x \in (-MaxNormal)..MaxNormal, y \in (-MaxNormal)..MaxNormal,
                          z \in (-MaxNormal)..MaxNormal}

LineCells == {<<x, y, z>> : x \in (-MaxLine)..MaxLine, y \in (-MaxLine)..MaxLine,
                            z \in (-MaxLine)..MaxLine}

Points == {<<x, y, 0>> : x \in (-MaxCoord)..MaxCoord, y \in (-MaxCoord)..MaxCoord}

GridCall(op, arg, value) ==
    /\ result' = [op |-> op, arg |-> arg, value |-> value]
    /\ last' = Obs(op, "ok", 0, FALSE, NoEvents)
    /\ UNCHANGED <<undoStack, redoStack, maxHistorySize, isUndoing, isRedoing,
                   frames, worldVars, maxVoxelCount, preview, pc, manip, app, bus, det>>
    /\ UNCHANGED <<before, pre, rt, run, since>>

NextSnap ==
    \/ result = NoResult /\ \E p \in Points : GridCall("snapToGrid", p, snapToGrid(p))
    \/ result = NoResult /\ \E p \in Points : GridCall("worldToGrid", p, worldToGrid(p))
    \/ result = NoResult /\ \E g \in Points : GridCall("gridToWorld", g, gridToWorld(g))
    \/ result = NoResult /\ \E start \in LineCells, end \in LineCells :
          GridCall("getLinePositions", <<start, end>>, getLinePositions(start, end))
    \/ result = NoResult /\ \E normal \in Normals :
          GridCall("snapToCardinalDirection", normal, snapToCardinalDirection(normal))

SpecSnap == InitHistory /\ [][NextSnap]_vars

\* ================================================================ claims
\* C1: the registry has an entry for cell K exactly when a voxel of the scene
\* has gridPosition K, the entry is that voxel, and no two voxels of the scene
\* share a cell.
C1_RegistryMatchesScene ==
    /\ \A K \in DOMAIN registry :
         registry[K] \in scene /\ vox[registry[K]].grid = K
    /\ \A v \in scene :
         vox[v].grid \in DOMAIN registry /\ registry[vox[v].grid] = v
    /\ \A v1 \in scene, v2 \in scene : v1 # v2 => vox[v1].grid # vox[v2].grid

\* C2: after an execute() made while no undo()/redo() is in progress and whose
\* command.execute() did not throw, the redo stack is empty; so every command on
\* the redo stack was undone since the last such execute.
C2_RedoClearedByExecute ==
    /\ (last.op = "execute" /\ ~last.inUR /\ last.outcome # "threw")
          => redoStack = <<>>
    /\ SeqToSet(redoStack) \subseteq since

\* C2 witness: a recorded execute that found commands on the redo stack.
C2_Witness ==
    /\ last.op = "execute"
    /\ last.outcome = "ok"
    /\ ~last.inUR
    /\ pre.redo # <<>>

\* C3: after execute(cmd), k undo() then k redo() restore both stacks and the
\* world (scene and block map) by value; undo reverts in reverse execution order
\* and redo re-applies in the original order.
C3_UndoRedoRoundTrip ==
    rt.on =>
      /\ Len(rt.undone) <= Len(rt.U)
      /\ \A i \in 1..Len(rt.undone) :
            i <= Len(rt.U) => rt.undone[i] = rt.U[Len(rt.U) - i + 1]
      /\ \A j \in 1..Len(rt.redone) :
            rt.redone[j] = rt.undone[Len(rt.undone) - j + 1]
      /\ (~InProgress /\ Len(rt.redone) = Len(rt.undone))
            => /\ undoStack = rt.U
               /\ redoStack = rt.R
               /\ World = rt.W

\* C3 witness: two undos followed by two redos after an execute.
C3_Witness ==
    /\ rt.on
    /\ ~InProgress
    /\ Len(rt.undone) = 2
    /\ Len(rt.redone) = 2

\* C4: maxHistorySize is at least 1, the undo stack never holds more than
\* maxHistorySize commands, and setMaxHistorySize(n) sets the limit to max(1, n)
\* and drops the oldest commands beyond it.
C4_UndoStackBounded ==
    /\ maxHistorySize >= 1
    /\ Len(undoStack) <= maxHistorySize
    /\ last.op = "setMaxHistorySize"
          => /\ maxHistorySize = Max(1, last.cmd)
             /\ undoStack = LastN(pre.undo, maxHistorySize)

\* C5: an execute on a full undo stack evicts exactly the oldest command and
\* keeps the order of the others; after n > maxHistorySize executes on an empty
\* history the undo stack is the last maxHistorySize commands in execution order.
C5_OldestEvicted ==
    /\ (last.op = "execute" /\ last.outcome = "ok" /\ Len(pre.undo) = maxHistorySize)
          => undoStack = Append(Tail(pre.undo), last.cmd)
    /\ (run.on /\ Len(run.log) > maxHistorySize)
          => undoStack = LastN(run.log, maxHistorySize)

\* C5 witness: three executes on an empty history with maxHistorySize = 2.
C5_Witness ==
    /\ run.on
    /\ maxHistorySize = 2
    /\ Len(run.log) = 3
    /\ last.op = "execute"

\* C6: when command.execute() throws inside execute(), the command is not
\* recorded, both stacks are as before the call and 'command-executed' is not
\* emitted.
C6_FailedExecuteNotRecorded ==
    (last.op = "execute" /\ last.outcome = "threw")
       => /\ Stacks = pre
          /\ last.cmd \notin SeqToSet(undoStack)
          /\ "command-executed" \notin last.emitted

\* C6 witness: a throwing execute with commands on both stacks.
C6_Witness ==
    /\ last.op = "execute"
    /\ last.outcome = "threw"
    /\ undoStack # <<>>
    /\ redoStack # <<>>

\* C7: when command.undo() throws during undo(), or command.execute() during
\* redo(), both stacks are exactly as before the call.
C7_FailedUndoRedoKeepsHistory ==
    (last.op \in {"undo", "redo"} /\ last.outcome = "threw") => Stacks = pre

\* C8: an execute() made while an undo() or redo() is in progress does not run
\* the command and leaves both stacks unchanged.
C8_ExecuteIgnoredDuringUndoRedo ==
    (last.op = "execute" /\ last.inUR) => last.outcome = "ignored"

\* C9: isUndoing and isRedoing are never both true.
C9_FlagsExclusive == ~(isUndoing /\ isRedoing)

\* The i-th cell of the path of the last extrude call.
PathCell(i) ==
    Add3(result.face.gridPosition,
         Scale3(IF result.distance > 0 THEN i ELSE -i, result.face.direction))

\* canPlaceVoxel is false at step i when every earlier step placed a voxel: the
\* cell was occupied before the call, or the earlier steps reached maxVoxelCount.
BlockedAt(i) ==
    \/ PathCell(i) \in DOMAIN before.registry
    \/ Cardinality(DOMAIN before.registry) + (i - 1) >= maxVoxelCount

\* C10: extrude(face, d) with d # 0 creates and registers voxels in exactly the
\* path cells before the first one where canPlaceVoxel is false (all |d| cells if
\* there is none), nothing at or beyond it, and count is the number created.
C10_ExtrudeStopsAtFirstBlockedCell ==
    (result.op = "extrude" /\ result.distance # 0) =>
        LET n == Abs(result.distance)
            k == result.count
        IN /\ result.success
           /\ k = Len(result.voxels)
           /\ k <= n
           /\ \A i \in 1..k : ~BlockedAt(i)
           /\ k < n => BlockedAt(k + 1)
           /\ DOMAIN registry = DOMAIN before.registry \cup {PathCell(i) : i \in 1..k}
           /\ \A K \in DOMAIN before.registry : registry[K] = before.registry[K]
           /\ \A i \in 1..k :
                /\ registry[PathCell(i)] = result.voxels[i]
                /\ result.voxels[i] \notin DOMAIN before.vox
                /\ result.voxels[i] \in scene
                /\ vox[result.voxels[i]].grid = PathCell(i)
                /\ \A j \in 1..k : i # j => result.voxels[i] # result.voxels[j]
           /\ scene = before.scene \cup SeqToSet(result.voxels)

\* C10 witness: a distance-5 extrusion whose 3rd cell was occupied: count 2.
C10_Witness ==
    /\ result.op = "extrude"
    /\ result.distance = 5
    /\ PathCell(3) \in DOMAIN before.registry
    /\ {PathCell(1), PathCell(2)} \cap DOMAIN before.registry = {}
    /\ result.count = 2
    /\ DOMAIN registry = DOMAIN before.registry \cup {PathCell(1), PathCell(2)}

\* extrude called once per face, in the given order, each call on the world
\* the previous call left.
RECURSIVE OneByOne(_, _, _, _)
OneByOne(w, faces, distance, created) ==
    IF faces = <<>> THEN [world |-> w, voxels |-> created]
    ELSE LET r == extrude(w, Head(faces), distance)
         IN OneByOne(r.world, Tail(faces), distance,
                     IF r.success THEN created \o r.voxels ELSE created)

\* C11: extrudeMultiple(faces, d) leaves the registry, and returns the created
\* voxels, of extrude(face, d) called once per face in order on the evolving
\* registry; no cell receives two voxels and count is the number of cells
\* newly occupied.
C11_ExtrudeMultipleIsSequentialExtrude ==
    result.op = "extrudeMultiple" =>
        LET ref == OneByOne(before, result.face, result.distance, <<>>)
        IN /\ registry = ref.world.registry
           /\ scene = ref.world.scene
           /\ result.voxels = ref.voxels
           /\ result.count = Len(result.voxels)
           /\ result.count = Cardinality(DOMAIN registry \ DOMAIN before.registry)
           /\ DOMAIN before.registry \subseteq DOMAIN registry
           /\ \A K \in DOMAIN before.registry : registry[K] = before.registry[K]
           /\ \A i \in 1..Len(result.voxels) :
                /\ registry[vox[result.voxels[i]].grid] = result.voxels[i]
                /\ vox[result.voxels[i]].grid \notin DOMAIN before.registry
                /\ \A j \in 1..Len(result.voxels) :
                     i # j => vox[result.voxels[i]].grid # vox[result.voxels[j]].grid

\* C11 witness: two faces whose paths cross; the second face created fewer
\* voxels than the first because the first had filled its cells.
C11_Witness ==
    /\ result.op = "extrudeMultiple"
    /\ Len(result.face) = 2
    /\ result.distance = 3
    /\ result.count = 4
    /\ extrude(before, result.face[1], result.distance).count = 3
    /\ extrude(before, result.face[2], result.distance).count = 3

\* The i-th cell (from 0) of the path of the last intrude call.
IntrudeCell(i) ==
    Add3(result.face.gridPosition, Scale3(-i, result.face.direction))

\* C12: intrude(face, d) with d >= 1 removes from the registry and the scene
\* exactly the voxels in the cells gridPosition - i*direction, i = 0..d-1, going
\* on past unoccupied cells; it returns those voxels and leaves the other
\* cells as they were.
C12_IntrudeRemovesExactlyThePath ==
    (result.op = "intrude" /\ result.distance >= 1) =>
        LET path == {IntrudeCell(i) : i \in 0..(result.distance - 1)}
            hit == path \cap DOMAIN before.registry
        IN /\ DOMAIN registry = DOMAIN before.registry \ path
           /\ \A K \in DOMAIN registry : registry[K] = before.registry[K]
           /\ SeqToSet(result.voxels) = {before.registry[K] : K \in hit}
           /\ Len(result.voxels) = Cardinality(hit)
           /\ result.count = Len(result.voxels)
           /\ result.success = (hit # {})
           /\ scene = before.scene \ SeqToSet(result.voxels)

\* C12 witness: a distance-3 intrusion whose middle cell was unoccupied and
\* whose first and last cells were occupied.
C12_Witness ==
    /\ result.op = "intrude"
    /\ result.distance = 3
    /\ IntrudeCell(1) \notin DOMAIN before.registry
    /\ IntrudeCell(2) \in DOMAIN before.registry
    /\ result.count = 2

\* Number of registered voxels.
VoxelCount(reg) == Cardinality(DOMAIN reg)

\* C13: extrusion never raises the number of registered voxels above
\* maxVoxelCount; on a full registry canPlaceVoxel is false for an unoccupied
\* cell too and extrude creates nothing; an extrusion that reaches the limit
\* part-way keeps the voxels created so far.
C13_ExtrusionRespectsMaxVoxelCount ==
    /\ VoxelCount(registry) <= maxVoxelCount
    /\ (result.op \in {"extrude", "extrudeMultiple"}
          /\ VoxelCount(before.registry) = maxVoxelCount)
          => /\ result.count = 0
             /\ registry = before.registry
             /\ \A K \in Cells(MaxX) : ~canPlaceVoxel(before.registry, K).canPlace
    /\ (result.op \in {"extrude", "extrudeMultiple"})
          => /\ VoxelCount(registry) = VoxelCount(before.registry) + result.count
             /\ result.count <= maxVoxelCount - VoxelCount(before.registry)

\* C13 witness: a distance-5 extrusion over unoccupied cells that stopped
\* after 2 voxels because the registry then held maxVoxelCount voxels.
C13_Witness ==
    /\ result.op = "extrude"
    /\ result.distance = 5
    /\ result.count = 2
    /\ VoxelCount(registry) = maxVoxelCount
    /\ \A i \in 1..5 : PathCell(i) \notin DOMAIN before.registry

\* The operations that create, update, clear or abandon a preview.
PreviewOps ==
    {"createPreview", "clearPreview", "GhostPreview.create", "updatePositions",
     "GhostPreview.clear", "startVolume", "updateVolume", "updateVolumePreview",
     "GridBlockSystem.clearPreview"}

\* C14: creating, updating, clearing or abandoning a preview leaves the
\* occupied cells and the cell-to-voxel mapping (and the block map) exactly as
\* they were; entries are added only by a finalized volume or an extrusion.
C14_PreviewsLeaveRegistryAlone ==
    /\ last.op \in PreviewOps => (registry = before.registry /\ blocks = before.blocks)
    /\ (last.op # "init" /\ (registry # before.registry \/ blocks # before.blocks))
          => last.op \in {"finalizeVolume", "extrude"}

\* C14 witness: a preview of two voxels over cells that can be placed was
\* created after a volume of blocks had been finalized.
C14_Witness ==
    /\ last.op = "createPreview"
    /\ Len(preview.extrusionPreview) = 2
    /\ \A i \in 1..2 : preview.extrusionPreview[i].color = "valid"
    /\ DOMAIN blocks # {}
    /\ registry = before.registry

\* The registry maps the cell of the voxel in hand to that voxel.
HeldInRegistry == pc.cell \in DOMAIN registry /\ registry[pc.cell] = pc.voxel

\* C15: in extrude, intrude, DeleteCommand and ExtrudeCommand the registry
\* change comes first: between the two statements of a loop body, a voxel that
\* is being added is in the scene only if it is registered, and a voxel that
\* is being removed is out of the scene only if it is unregistered.
C15_RegistryChangeComesFirst ==
    pc.voxel # 0 =>
        IF pc.op \in {"extrude", "Delete.undo", "Extrude.execute"}
        THEN pc.voxel \in scene => HeldInRegistry
        ELSE pc.voxel \notin scene => ~HeldInRegistry

\* The cells a MoveCommand moves its objects from and to.
FromCell(c, i) == worldToGrid(c.fromPositions[i])

ToCell(c, i) == worldToGrid(c.toPositions[i])

\* The precondition of C16 in world w: distinct objects, each registered at the
\* cell of its from-position, pairwise distinct target cells, none of them
\* holding a voxel that is not being moved.
MovePrecondition(w, c) ==
    LET n == Len(c.objects)
    IN /\ \A i, j \in 1..n : i # j => c.objects[i] # c.objects[j]
       /\ \A i \in 1..n : /\ FromCell(c, i) \in DOMAIN w.registry
                          /\ w.registry[FromCell(c, i)] = c.objects[i]
       /\ \A i, j \in 1..n : i # j => ToCell(c, i) # ToCell(c, j)
       /\ \A i \in 1..n : ToCell(c, i) \in DOMAIN w.registry
                             => w.registry[ToCell(c, i)] \in SeqToSet(c.objects)

\* C16: after MoveCommand.execute under that precondition every object is
\* registered at its target cell and every source cell that is not a target
\* is unoccupied, and undo gives back the registry from before execute; also
\* for chain and swap moves.
C16_MoveReKeysRegistry ==
    (last.op = "execute" /\ last.outcome = "ok" /\ last.cmd.type = "Move"
       /\ MovePrecondition(before, last.cmd)) =>
        LET c == last.cmd
            n == Len(c.objects)
        IN /\ \A i \in 1..n : /\ ToCell(c, i) \in DOMAIN registry
                              /\ registry[ToCell(c, i)] = c.objects[i]
           /\ \A i \in 1..n : (\A j \in 1..n : FromCell(c, i) # ToCell(c, j))
                                 => FromCell(c, i) \notin DOMAIN registry
           /\ MoveUndo(World, c).registry = before.registry

\* The loop of the operation op has run to its end.
Finished(op) == pc.op = op /\ pc.voxel = 0 /\ LoopDone(pc)

\* C17: ExtrudeCommand.undo removes from the scene and from the registry
\* exactly the voxels created by that extrusion: none of them is in the scene
\* or registered afterwards and every entry of another voxel is unchanged;
\* redo registers the same voxels at the same cells again.
C17_ExtrudeUndoRemovesOnlyItsVoxels ==
    LET created == SeqToSet(pc.cmd.createdVoxels)
    IN /\ Finished("Extrude.undo") =>
            /\ \A v \in created : v \notin scene /\ v \notin Range(registry)
            /\ \A K \in DOMAIN before.registry :
                  before.registry[K] \notin created
                     => K \in DOMAIN registry /\ registry[K] = before.registry[K]
       /\ Finished("Extrude.execute") =>
            \A v \in created :
               /\ v \in scene
               /\ vox[v].grid \in DOMAIN registry
               /\ registry[vox[v].grid] = v

\* C18: every placed voxel stays grid-aligned: in every reachable state (after
\* extrude, after MoveCommand and RotateCommand execute/undo, during and after
\* a ManipulationSystem move) its world position is
\* gridToWorld(userData.gridPosition) and the registry holds it at that cell,
\* so its position has never changed without its gridPosition and its
\* registry key.
C18_VoxelsStayGridAligned ==
    \A v \in scene \cap DOMAIN vox :
        /\ vox[v].pos = gridToWorld(vox[v].grid)
        /\ vox[v].grid \in DOMAIN registry
        /\ registry[vox[v].grid] = v

\* C19: isExternalFace is true exactly when the cell gridPosition + direction
\* is unoccupied, and extrude with d > 0 on a face that is not external
\* creates no voxel and leaves the registry (and the scene) unchanged.
C19_InternalFaceNotExtruded ==
    result.op = "extrude" =>
        /\ isExternalFace(result.face, before.registry)
             = (Add3(result.face.gridPosition, result.face.direction)
                  \notin DOMAIN before.registry)
        /\ (result.distance > 0 /\ ~isExternalFace(result.face, before.registry))
             => /\ result.count = 0
                /\ result.voxels = <<>>
                /\ registry = before.registry
                /\ scene = before.scene

\* C19 witness: extrude by 2 on an internal face whose second cell is free:
\* nothing was created.
C19_Witness ==
    /\ result.op = "extrude"
    /\ result.distance = 2
    /\ ~isExternalFace(result.face, before.registry)
    /\ PathCell(2) \notin DOMAIN before.registry
    /\ PathCell(2) \in Cells(MaxX)
    /\ VoxelCount(before.registry) < maxVoxelCount
    /\ result.count = 0

\* The integer nearest to c / voxelSize, an exact tie broken away from zero
\* (c in halves).
NearestAwayFromZero(c) ==
    LET n == (2 * Abs(c) + voxelSize) \div (2 * voxelSize)
    IN IF c < 0 THEN -n ELSE n

\* C20: snapToGrid maps each coordinate c to voxelSize * r, r the integer
\* nearest to c / voxelSize with an exact tie broken away from zero, for
\* negative as for positive c; worldToGrid returns that r.
C20_SnapRoundsTiesAwayFromZero ==
    /\ result.op = "snapToGrid" =>
          \A k \in 1..3 : result.value[k] = voxelSize * NearestAwayFromZero(result.arg[k])
    /\ result.op = "worldToGrid" =>
          \A k \in 1..3 : result.value[k] = NearestAwayFromZero(result.arg[k])

\* C21: getLinePositions(start, end) returns a line from start to end of
\* max(|dx|,|dy|,|dz|)+1 cells, none twice, whose consecutive cells differ by
\* exactly 1 on the driving axis and by at most 1 on the other two.
C21_LineIsConnected ==
    result.op = "getLinePositions" =>
        LET start == result.arg[1]
            end == result.arg[2]
            line == result.value
            d == LineDeltas(start, end)
            n == Max(d[1], Max(d[2], d[3]))
        IN /\ Len(line) = n + 1
           /\ line[1] = start
           /\ line[Len(line)] = end
           /\ \A i \in 1..Len(line), j \in 1..Len(line) : i # j => line[i] # line[j]
           /\ \E main \in 1..3 :
                /\ d[main] = n
                /\ \A i \in 1..(Len(line) - 1) :
                     /\ Abs(line[i + 1][main] - line[i][main]) = 1
                     /\ \A k \in 1..3 : Abs(line[i + 1][k] - line[i][k]) <= 1

\* A line of the greatest length that also moves on the two other axes.
C21_Witness ==
    /\ result.op = "getLinePositions"
    /\ Len(result.value) = 2 * MaxLine + 1
    /\ result.arg[1][2] # result.arg[2][2]
    /\ result.arg[1][3] # result.arg[2][3]
    /\ result.arg[1][2] - result.arg[2][2] # result.arg[1][3] - result.arg[2][3]

\* C22: for a normal with a non-zero component, snapToCardinalDirection
\* returns +1 or -1 on the first axis, in the order x, y, z, whose absolute
\* component is the largest, with the sign of that component, and 0 elsewhere.
C22_SnapsToDominantAxis ==
    (result.op = "snapToCardinalDirection" /\ result.arg # <<0, 0, 0>>) =>
        LET normal == result.arg
            largest == Max(Abs(normal[1]), Max(Abs(normal[2]), Abs(normal[3])))
            axis == CHOOSE k \in 1..3 :
                        /\ Abs(normal[k]) = largest
                        /\ \A j \in 1..(k - 1) : Abs(normal[j]) < largest
        IN /\ result.value[axis] \in {1, -1}
           /\ result.value[axis] * normal[axis] > 0
           /\ \A k \in (1..3) \ {axis} : result.value[k] = 0

\* A normal whose y and z components tie for the largest, y negative.
C22_Witness ==
    /\ result.op = "snapToCardinalDirection"
    /\ Abs(result.arg[2]) = Abs(result.arg[3])
    /\ Abs(result.arg[1]) < Abs(result.arg[2])
    /\ result.arg[2] < 0
    /\ result.value = <<0, -1, 0>>

\* C23: worldToGrid(gridToWorld(g)) = g for every grid position g, and
\* gridToWorld(worldToGrid(s)) = s for every s returned by snapToGrid.
C23_GridWorldRoundTrip ==
    /\ result.op = "gridToWorld" => worldToGrid(result.value) = result.arg
    /\ result.op = "snapToGrid" => gridToWorld(worldToGrid(result.value)) = result.value

\* snapToGrid moved a negative position that lies half-way between two grid
\* points.
C23_Witness ==
    /\ result.op = "snapToGrid"
    /\ result.arg[2] = -(voxelSize + 3)
    /\ result.value # result.arg
    /\ worldToGrid(result.value)[2] < 0

\* C24: a delivery of hand results only stores them, and every statement of
\* one processHandData call that reads the hands reads the hands of one and
\* the same delivery, which are still the stored ones while the call runs.
C24_TickSeesOneDelivery ==
    /\ last.op = "onHandsDetected" => (before = World /\ app.at = "idle")
    /\ \A i \in 1..Len(app.seen), j \in 1..Len(app.seen) :
         /\ app.seen[i].results = app.seen[j].results
         /\ app.seen[i].leftHand = app.seen[j].leftHand
         /\ app.seen[i].rightHand = app.seen[j].rightHand
    /\ \A i \in 1..Len(app.seen) :
         /\ (app.seen[i].leftHand # NoHand /\ app.seen[i].rightHand # NoHand) =>
               app.seen[i].leftHand.delivery = app.seen[i].rightHand.delivery
         /\ app.at # "idle" =>
               /\ app.seen[i].leftHand = app.leftHand
               /\ app.seen[i].rightHand = app.rightHand
               /\ app.seen[i].results = app.latestHandResults

\* A frame has read both hands of the second delivery and is about to route
\* them.
C24_Witness ==
    /\ app.at = "route"
    /\ Len(app.seen) = 2
    /\ app.seen[1].results = MaxDelivery
    /\ app.seen[1].leftHand.delivery = MaxDelivery
    /\ app.seen[2].rightHand.delivery = MaxDelivery

\* A call of op ("undo" or "redo") is made in this step.
Called(op) == last'.op = op /\ last'.outcome \in {"noop", "called"}

\* C25: undo() on an empty undo stack and redo() on an empty redo stack
\* change neither stack nor flag, call no command method, emit nothing and
\* leave the blocks alone; getStatus reports canUndo (canRedo) false exactly
\* when the undo (redo) stack is empty.
C25_EmptyUndoRedoIsNoOp ==
    /\ [](getStatus.canUndo = (undoStack # <<>>) /\ getStatus.canRedo = (redoStack # <<>>))
    /\ [][((Called("undo") /\ undoStack = <<>>) \/ (Called("redo") /\ redoStack = <<>>)) =>
            /\ UNCHANGED <<undoStack, redoStack, isUndoing, isRedoing, frames, worldVars>>
            /\ last'.outcome = "noop"
            /\ last'.emitted = NoEvents]_vars

\* undo() found the undo stack empty while a redo() was running.
C25_Witness ==
    /\ last.op = "undo"
    /\ last.outcome = "noop"
    /\ undoStack = <<>>
    /\ isRedoing
    /\ frames # <<>>

\* C26: extrude(face, 0) fails with reason 'zero-distance', and
\* extrudeMultiple(faces, 0) reports success false; both create no voxel and
\* leave the registry and the scene as they were.
C26_ZeroDistanceCreatesNothing ==
    (result.op \in {"extrude", "extrudeMultiple"} /\ result.distance = 0) =>
        /\ ~result.success
        /\ result.op = "extrude" => result.reason = "zero-distance"
        /\ result.voxels = <<>>
        /\ result.count = 0
        /\ registry = before.registry
        /\ scene = before.scene
        /\ DOMAIN vox = DOMAIN before.vox

\* extrudeMultiple returned from a call with two faces and distance 0.
C26_Witness ==
    /\ result.op = "extrudeMultiple"
    /\ result.distance = 0
    /\ Len(result.face) = 2
    /\ ~result.success

\* C27: RotateCommand.execute directly followed by RotateCommand.undo leaves
\* the registry as it was before execute, every object registered at its
\* original grid position, with the rotation, position and gridPosition
\* captured at construction.
C27_RotateUndoRestoresRegistry ==
    (last.op = "undo" /\ last.outcome = "step" /\ before # EmptyWorld) =>
        (last.cmd.type = "Rotate" =>
            /\ registry = before.registry
            /\ \A i \in 1..Len(last.cmd.objects) :
                 LET object == last.cmd.objects[i]
                 IN /\ getVoxelAt(registry, last.cmd.originalGridPositions[i]) = object
                    /\ vox[object].rot = last.cmd.originalRotations[i]
                    /\ vox[object].pos = last.cmd.originalPositions[i]
                    /\ vox[object].grid = last.cmd.originalGridPositions[i])

\* C28: the block system's map has key K exactly when a block whose grid cell
\* is K is in the scene, so the cell of a deleted block is unoccupied.
C28_BlocksMatchScene ==
    \A K \in DOMAIN blocks \cup {getGridKey(BlockPosition(b)) : b \in scene} :
        /\ K \in DOMAIN blocks <=> \E b \in scene : getGridKey(BlockPosition(b)) = K
        /\ BlockIsOccupied(World, <<gridSize * K[1], 0, 0>>) <=>
              \E b \in scene : getGridKey(BlockPosition(b)) = K

\* The grid positions of the box between two corners on the x axis.
BoxCells(startCorner, endCorner) ==
    {<<x, startCorner[2], startCorner[3]>> :
       x \in {a \in (-(gridSize * MaxVolumeCell))..0 :
                /\ a % gridSize = 0
                /\ (startCorner[1] <= a /\ a <= endCorner[1])
                      \/ (endCorner[1] <= a /\ a <= startCorner[1])}}

\* The six face-adjacent positions.
Neighbours(position) ==
    {Add3(position, Scale3(gridSize, d)) :
       d \in {<<1, 0, 0>>, <<-1, 0, 0>>, <<0, 1, 0>>, <<0, -1, 0>>, <<0, 0, 1>>, <<0, 0, -1>>}}

PinchReleased ==
    /\ preview.isCreating
    /\ app.currentMode = "create"
    /\ app.latestHandResults # 0
    /\ app.leftHand # NoHand \/ app.rightHand # NoHand
    /\ ~(app.leftHand.isPinched /\ app.rightHand.isPinched)

\* C30: once the hands release the two-hand pinch during a volume creation,
\* the frames that follow finalize it: isCreating becomes false, unless the
\* hands pinch again or vanish or the mode is left before that.
C30_ReleaseFinalizes == PinchReleased ~> (~preview.isCreating \/ ~PinchReleased)

\* C31: the block system never holds more than maxBlocks blocks.
C31_BlocksWithinLimit == Cardinality(DOMAIN blocks) <= preview.maxBlocks

\* C32: finalizeVolume replaces no entry of blocks: every entry that was in
\* blocks before the call is in blocks, unchanged, after it.
C32_FinalizeReplacesNoEntry ==
    [][last'.op = "finalizeVolume" =>
          \A K \in DOMAIN blocks : K \in DOMAIN blocks' /\ blocks'[K] = blocks[K]]_vars

\* C33: a manipulation session ends with one 'objects-transformed' whose
\* initialTransform of every object is the transform the object had when the
\* session began.
C33_SessionRecordsItsStart ==
    result.op = "objects-transformed" =>
        /\ result.count = 1
        /\ \A o \in DOMAIN result.transformations :
              result.transformations[o].initialTransform =
                  [position |-> before.vox[o].pos, rotation |-> before.vox[o].rot]

\* C34: while no undo() or redo() call is in progress both flags are false,
\* also after a call that threw, and an execute() made then is not ignored.
C34_FlagsClearedOutsideCalls ==
    /\ ~InProgress => ~isUndoing /\ ~isRedoing
    /\ (last.op = "execute" /\ ~last.inUR) => last.outcome # "ignored"

\* An undo() or redo() has thrown and no call is in progress.
C34_Witness ==
    /\ ~InProgress
    /\ last.op \in {"undo", "redo"}
    /\ last.outcome = "threw"
    /\ ~isUndoing /\ ~isRedoing

\* C35: an emit calls every callback that was subscribed when it started,
\* once each and in the order of subscription.
C35_EmitCallsEverySubscriber == bus.done.called = bus.done.snapshot

\* C36: a function handed to once() is called at most once, and once it has
\* been called and no emit is running its wrapper is no longer subscribed.
C36_OnceRunsOnce ==
    \A id \in 1..Len(bus.listeners) :
        bus.listeners[id].once =>
            /\ bus.calls[id] <= 1
            /\ (bus.calls[id] >= 1 /\ bus.emits = <<>>) =>
                  \A k \in 1..Len(bus.callbacks) : bus.callbacks[k] # id

\* C37: detect() reports isFist only for a held fist: the smoothed signal has
\* been true for at least HOLD_DURATION_MS up to this call, or up to a call less
\* than RELEASE_DURATION_MS ago.
C37_FistOnlyWhenHeld ==
    det.out.isFist =>
        /\ det.heldUntil # NoTime
        /\ det.now - det.heldUntil < RELEASE_DURATION_MS

\* C38: once the smoothed signal has been false for RELEASE_DURATION_MS of
\* calls, detect() reports no fist, state 'open', and the detector is open.
C38_FistReleases ==
    (det.out.smoothed = "false" /\ det.now - det.falseSince >= RELEASE_DURATION_MS) =>
        /\ ~det.out.isFist
        /\ det.out.state = "open"
        /\ ~det.lastFistState
        /\ det.fistStartTime = NoTime

\* C39: after a detect() the isGrabbing of the result is the detector's
\* isActive(); a grab starts only on a confirmed fist of enough confidence next
\* to a selected object; a grab that has ended gave one result with justReleased.
C39_ResultMatchesGrabState ==
    det.out.state # "none" =>
        /\ det.out.isGrabbing = det.isGrabbing
        /\ det.out.justGrabbed =>
              /\ det.out.state = "confirmed"
              /\ det.out.confidence >= MIN_CONFIDENCE
              /\ det.out.near
        /\ det.released <= 1
        /\ det.out.justReleased => det.released = 1

\* C40: in every state reached by setMode, nextMode and toggleMode calls,
\* currentMode is one of the five modes and previousMode, when it is not null,
\* is a mode other than currentMode; a setMode call whose argument is no mode
\* or is the current mode leaves both fields as they were and emits no
\* 'mode-changed'; five nextMode calls in a row go through every mode once and
\* end in the mode they started from.
C40_ModeStaysValid ==
    /\ app.currentMode \in Modes
    /\ app.previousMode # "null" =>
          /\ app.previousMode \in Modes
          /\ app.previousMode # app.currentMode
    /\ (result.op = "setMode"
          /\ (result.mode \notin Modes \/ result.mode = result.was.currentMode)) =>
          /\ app.currentMode = result.was.currentMode
          /\ app.previousMode = result.was.previousMode
          /\ "mode-changed" \notin last.emitted
    /\ (result.op = "nextMode" /\ Len(result.trail) = Len(ModeList) + 1) =>
          /\ {result.trail[i] : i \in 1..Len(ModeList)} = Modes
          /\ result.trail[Len(ModeList) + 1] = result.trail[1]
          /\ app.currentMode = result.trail[1]

\* Five nextMode calls in a row that started in 'extrude'.
C40_Witness ==
    /\ result.op = "nextMode"
    /\ Len(result.trail) = Len(ModeList) + 1
    /\ result.trail[1] = "extrude"
    /\ app.previousMode = "select"

====
